---- MODULE Spec2Model ----
(***************************************************************************)
(* Memmert incubator control: the AtmoWEB client (atmoweb.py), the         *)
(* schedule executor (memmert_scheduler.py), and the programs that apply a *)
(* changed schedule file (schedule_watcher.py, memmert_daemon.py,          *)
(* memmert_daemon_autonomous.py).                                          *)
(*                                                                         *)
(* Times are whole ticks, device values are whole numbers standing for     *)
(* Python floats, strings are sequences of one-character strings.          *)
(***************************************************************************)
EXTENDS Integers, Sequences, FiniteSets, TLC

VARIABLES
    schedule,         \* ScheduleExecutor.schedule: NoSchedule or Loaded(document)
    executed_points,  \* ScheduleExecutor.executed_points: set of point ids
    tolerance,        \* ScheduleExecutor.tolerance
    check_interval,   \* ScheduleExecutor.check_interval
    call,             \* the most recent executor operation and what it did
    applyCount,       \* per point id: apply_setpoints invocations so far
    setCount,         \* per (point id, setpoint position): set_parameter calls so far
    client,           \* the most recent stand-alone AtmoWebClient.set_parameter call
    run,              \* run_continuous: loop position, clock and bookkeeping
    status,           \* the most recent get_setpoints / get_readings call
    main,             \* main(): position, exit code, exception, schedule file
    response,         \* the most recent AtmoWebParser.parse_response call
    daemon            \* the sync programs: files on disk, loop position, last check

vars == <<schedule, executed_points, tolerance, check_interval, call,
          applyCount, setCount, client, run, status, main, response, daemon>>

(***************************************************************************)
(* Bounds of the model.                                                    *)
(***************************************************************************)
MaxVal == 3
MaxTime == 6
MaxTol == 1

(***************************************************************************)
(* Python values as they come out of json.loads: numbers, strings, nested  *)
(* objects; None stands for Python's None (dict.get of a missing key).     *)
(***************************************************************************)
EmptyDict == [x \in {} |-> 0]
None == [t |-> "none", n |-> 0, s |-> <<>>, d |-> EmptyDict]
Num(n) == [t |-> "num", n |-> n, s |-> <<>>, d |-> EmptyDict]
Str(s) == [t |-> "str", n |-> 0, s |-> s, d |-> EmptyDict]
Dict(d) == [t |-> "dict", n |-> 0, s |-> <<>>, d |-> d]

Whitespace == {" ", "\n"}
Digits == {"0", "1", "2", "3", "4", "5", "6", "7", "8", "9"}

DigitVal(c) ==
    CASE c = "0" -> 0 [] c = "1" -> 1 [] c = "2" -> 2 [] c = "3" -> 3
      [] c = "4" -> 4 [] c = "5" -> 5 [] c = "6" -> 6 [] c = "7" -> 7
      [] c = "8" -> 8 [] OTHER -> 9

\* str.upper(), character by character
upper_char(c) ==
    CASE c = "a" -> "A" [] c = "d" -> "D" [] c = "k" -> "K" [] c = "n" -> "N"
      [] c = "o" -> "O" [] c = "u" -> "U" [] c = "w" -> "W" [] c = "x" -> "X"
      [] OTHER -> c

upper(s) == [i \in 1..Len(s) |-> upper_char(s[i])]

\* str.strip(): drop leading and trailing whitespace
RECURSIVE lstrip(_)
lstrip(s) == IF Len(s) > 0 /\ Head(s) \in Whitespace THEN lstrip(Tail(s)) ELSE s

RECURSIVE rstrip(_)
rstrip(s) ==
    IF Len(s) > 0 /\ s[Len(s)] \in Whitespace
    THEN rstrip(SubSeq(s, 1, Len(s) - 1))
    ELSE s

strip(s) == rstrip(lstrip(s))

RECURSIVE DecimalValue(_)
DecimalValue(s) ==
    IF Len(s) = 0 THEN 0
    ELSE 10 * DecimalValue(SubSeq(s, 1, Len(s) - 1)) + DigitVal(s[Len(s)])

\* float(v): numbers convert, digit strings parse (surrounding whitespace
\* allowed), other strings raise ValueError, None and objects raise TypeError
Converted(n) == [exc |-> "", n |-> n]
Raised(e) == [exc |-> e, n |-> 0]

to_float(v) ==
    CASE v.t = "num" -> Converted(v.n)
      [] v.t = "str" ->
            LET body == strip(v.s)
            IN  IF Len(body) > 0 /\ \A i \in 1..Len(body) : body[i] \in Digits
                THEN Converted(DecimalValue(body))
                ELSE Raised("ValueError")
      [] OTHER -> Raised("TypeError")

\* AtmoWebClient._parse_numeric
parse_numeric(value) ==
    IF value.t = "none" THEN None
    ELSE LET f == to_float(value)
         IN  IF f.exc = "" THEN Num(f.n) ELSE None

(***************************************************************************)
(* AtmoWebParser.parse_response: the repair pipeline on the characters of  *)
(* the response text, then json.loads.  The glyphs outside ASCII are named *)
(* by their code points.  Numbers in a text are digits with an optional    *)
(* fraction; the literals true, false and null, arrays and string escapes  *)
(* are outside the alphabet of the texts.                                  *)
(***************************************************************************)
Quote == "\""
Low9Quote == "U+201E"
LeftQuote == "U+201C"
RightQuote == "U+201D"

Letters ==
    {"a", "b", "c", "d", "e", "f", "g", "h", "i", "j", "k", "l", "m", "n",
     "o", "p", "q", "r", "s", "t", "u", "v", "w", "x", "y", "z",
     "A", "B", "C", "D", "E", "F", "G", "H", "I", "J", "K", "L", "M", "N",
     "O", "P", "Q", "R", "S", "T", "U", "V", "W", "X", "Y", "Z"}

\* the character classes of the patterns
IdentStart == Letters \cup {"_"}
IdentChars == IdentStart \cup Digits
WordChars == IdentChars \cup {".", "/", "-"}
CurlyClass == {Low9Quote, Quote}

\* the character at position i, "" past either end
At(text, i) == IF i >= 1 /\ i <= Len(text) THEN text[i] ELSE ""

\* the first position from i on that holds no whitespace (\s*)
RECURSIVE skip_space(_, _)
skip_space(text, i) ==
    IF At(text, i) \in Whitespace THEN skip_space(text, i + 1) ELSE i

\* the first position from i on that holds no character of class
RECURSIVE skip_class(_, _, _)
skip_class(text, i, class) ==
    IF At(text, i) \in class THEN skip_class(text, i + 1, class) ELSE i

\* line 38: re.sub of the character class by the ASCII double quote
replace_curly_quotes(text) ==
    [i \in 1..Len(text) |-> IF text[i] \in CurlyClass THEN Quote ELSE text[i]]

\* str.rstrip(chars)
RECURSIVE rstrip_chars(_, _)
rstrip_chars(text, chars) ==
    IF Len(text) > 0 /\ text[Len(text)] \in chars
    THEN rstrip_chars(SubSeq(text, 1, Len(text) - 1), chars)
    ELSE text

\* re.sub(r",\s*}", "}", text) from position i on
RECURSIVE drop_trailing_commas(_, _)
drop_trailing_commas(text, i) ==
    IF i > Len(text) THEN <<>>
    ELSE IF text[i] = "," /\ At(text, skip_space(text, i + 1)) = "}"
    THEN <<"}">> \o drop_trailing_commas(text, skip_space(text, i + 1) + 1)
    ELSE <<text[i]>> \o drop_trailing_commas(text, i + 1)

\* mutant: an empty text is left as it is
ensure_braces_unless_empty(text) ==
    LET opened == IF At(text, 1) = "{" THEN text ELSE <<"{">> \o text
        closed == IF At(opened, Len(opened)) = "}" THEN opened
                  ELSE rstrip_chars(opened, {",", " ", "\r", "\n", "\t"})
                       \o <<"}">>
    IN  IF text = <<>> THEN text ELSE drop_trailing_commas(closed, 1)

\* AtmoWebParser._ensure_braces
ensure_braces(text) ==
    LET opened == IF At(text, 1) = "{" THEN text ELSE <<"{">> \o text
        closed == IF At(opened, Len(opened)) = "}" THEN opened
                  ELSE rstrip_chars(opened, {",", " ", "\r", "\n", "\t"})
                       \o <<"}">>
    IN  drop_trailing_commas(closed, 1)

\* line 44: re.sub(r'([,{]\s*)([A-Za-z_][A-Za-z0-9_]*)\s*:', r'\1"\2":')
\* from position i on
RECURSIVE quote_bare_keys(_, _)
quote_bare_keys(text, i) ==
    IF i > Len(text) THEN <<>>
    ELSE LET j == skip_space(text, i + 1)
             k == skip_class(text, j, IdentChars)
             m == skip_space(text, k)
         IN  IF text[i] \in {",", "{"} /\ At(text, j) \in IdentStart
                /\ At(text, m) = ":"
             THEN SubSeq(text, i, j - 1) \o <<Quote>> \o SubSeq(text, j, k - 1)
                  \o <<Quote, ":">> \o quote_bare_keys(text, m + 1)
             ELSE <<text[i]>> \o quote_bare_keys(text, i + 1)

\* AtmoWebParser._quote_bareword_values:
\* re.sub(r':\s*([A-Za-z_][A-Za-z0-9_./-]*)\s*(?=[,}])', ':"\1"') from i on
RECURSIVE quote_bareword_values(_, _)
quote_bareword_values(text, i) ==
    IF i > Len(text) THEN <<>>
    ELSE LET j == skip_space(text, i + 1)
             k == skip_class(text, j, WordChars)
             m == skip_space(text, k)
         IN  IF text[i] = ":" /\ At(text, j) \in IdentStart
                /\ At(text, m) \in {",", "}"}
             THEN <<":", Quote>> \o SubSeq(text, j, k - 1) \o <<Quote>>
                  \o quote_bareword_values(text, m)
             ELSE <<text[i]>> \o quote_bareword_values(text, i + 1)

\* the text handed to json.loads
repaired(raw) ==
    quote_bareword_values(
        quote_bare_keys(ensure_braces(replace_curly_quotes(strip(raw))), 1), 1)

\* what a parse step gives: success, the position after it, the value
Parsed(next, value) == [ok |-> TRUE, next |-> next, value |-> value]
NotParsed == [ok |-> FALSE, next |-> 0, value |-> None]

\* a float of json.loads: the whole part in n, the fraction digits that
\* remain without their trailing zeros in s
Float(whole, fraction) ==
    [t |-> "num", n |-> whole, s |-> rstrip_chars(fraction, {"0"}), d |-> EmptyDict]

\* json: a string, from its opening quote at position i
json_string(text, i) ==
    LET close == skip_class(text, i + 1, {text[k] : k \in 1..Len(text)} \ {Quote})
    IN  IF At(text, i) = Quote /\ At(text, close) = Quote
        THEN Parsed(close + 1, Str(SubSeq(text, i + 1, close - 1)))
        ELSE NotParsed

\* json: a number at position i (sign, digits, optional fraction)
json_number(text, i) ==
    LET first == IF At(text, i) = "-" THEN i + 1 ELSE i
        dot == skip_class(text, first, Digits)
        last == skip_class(text, dot + 1, Digits)
        whole == DecimalValue(SubSeq(text, first, dot - 1))
        signed == IF first = i THEN whole ELSE 0 - whole
    IN  IF dot = first \/ (dot - first > 1 /\ text[first] = "0") THEN NotParsed
        ELSE IF At(text, dot) # "." THEN Parsed(dot, Float(signed, <<>>))
        ELSE IF last = dot + 1 THEN NotParsed
        ELSE Parsed(last, Float(signed, SubSeq(text, dot + 1, last - 1)))

\* json: a value at position i, and the members of an object from the
\* position of a key on (a repeated key keeps its last value)
RECURSIVE json_value(_, _), json_members(_, _, _)
json_value(text, i) ==
    IF At(text, i) = Quote THEN json_string(text, i)
    ELSE IF At(text, i) = "{"
    THEN IF At(text, skip_space(text, i + 1)) = "}"
         THEN Parsed(skip_space(text, i + 1) + 1, Dict(EmptyDict))
         ELSE json_members(text, skip_space(text, i + 1), EmptyDict)
    ELSE json_number(text, i)

json_members(text, i, acc) ==
    LET key == json_string(text, i)
        colon == skip_space(text, key.next)
        value == json_value(text, skip_space(text, colon + 1))
        after == skip_space(text, value.next)
        members == (key.value.s :> value.value) @@ acc
    IN  IF ~key.ok \/ At(text, colon) # ":" THEN NotParsed
        ELSE IF ~value.ok THEN NotParsed
        ELSE IF At(text, after) = "}" THEN Parsed(after + 1, Dict(members))
        ELSE IF At(text, after) = ","
        THEN json_members(text, skip_space(text, after + 1), members)
        ELSE NotParsed

\* what parse_response gives: the mapping, or the exception it raises
Decoded(value) == [exc |-> "", value |-> value]
DecodeError == [exc |-> "JSONDecodeError", value |-> None]

\* json.loads
json_loads(text) ==
    LET doc == json_value(text, skip_space(text, 1))
    IN  IF doc.ok /\ skip_space(text, doc.next) = Len(text) + 1
        THEN Decoded(doc.value)
        ELSE DecodeError

\* AtmoWebParser.parse_response; raw is a string or None, and `raw or ""`
\* reads None as the empty string
parse_response(raw) ==
    json_loads(repaired(IF raw.t = "none" THEN <<>> ELSE raw.s))

\* how a device writes an object: outer braces or none, a comma after the
\* last member of the object and of a nested object, the glyphs around keys
\* and strings ("bare": none around keys), sentinel words quoted or not
Style(braces, comma, inner, quotes, bare_words) ==
    [braces |-> braces, comma |-> comma, inner |-> inner, quotes |-> quotes,
     bare_words |-> bare_words]
Strict == Style(TRUE, FALSE, FALSE, "ascii", FALSE)

\* no response parsed yet
NoResponse ==
    [pc |-> "none", sent |-> <<>>, style |-> Strict, raw |-> Str(<<>>),
     out |-> DecodeError]

(***************************************************************************)
(* Wire keys and parsed responses.  A parsed response maps field names to  *)
(* values; the field of wire key k with suffix x is <<k, x>>.              *)
(***************************************************************************)
PARAM_KEYS == {"TempSet", "HumSet", "CO2Set", "O2Set", "FanSet"}

Field(key, suffix) == <<key, suffix>>

\* dict.get(name)
Get(map, name) == IF name \in DOMAIN map THEN map[name] ELSE None

\* A device answer to one HTTP GET: a transport failure, a body that the
\* repair pipeline cannot turn into JSON, or a body that parses to a mapping.
NetError == [t |-> "neterr", map |-> EmptyDict]
BadBody == [t |-> "badjson", map |-> EmptyDict]
Body(map) == [t |-> "ok", map |-> map]

\* AtmoWebClient.query: requests.get, raise_for_status, parse_response
query(resp) ==
    CASE resp.t = "neterr" -> [exc |-> "RequestException", map |-> EmptyDict]
      [] resp.t = "badjson" -> [exc |-> "JSONDecodeError", map |-> EmptyDict]
      [] OTHER -> [exc |-> "", map |-> resp.map]

\* JSONDecodeError is a subclass of ValueError
IsValueError(exc) == exc \in {"ValueError", "JSONDecodeError"}

\* mutant: only the first spelling of the key is looked up
get_dict_value_first_only(data, keys) ==
    IF Len(keys) > 0 /\ Head(keys) \in DOMAIN data THEN data[Head(keys)] ELSE None

\* AtmoWebClient._get_dict_value: the first of the keys present in data
RECURSIVE get_dict_value(_, _)
get_dict_value(data, keys) ==
    IF Len(keys) = 0 THEN None
    ELSE IF Head(keys) \in DOMAIN data THEN data[Head(keys)]
    ELSE get_dict_value(data, Tail(keys))

MinKeys == <<"min", "Min", "MIN">>
MaxKeys == <<"max", "Max", "MAX">>

NoRange == [exc |-> "", present |-> FALSE, min |-> 0, max |-> 0]
Range(lo, hi) == [exc |-> "", present |-> TRUE, min |-> lo, max |-> hi]

\* float(a), float(b) inside the try block: a failed conversion is caught and
\* the function returns None
float_pair(a, b) ==
    LET fa == to_float(a)
        fb == to_float(b)
    IN  IF fa.exc = "" /\ fb.exc = "" THEN Range(fa.n, fb.n) ELSE NoRange

\* mutant: one flat key alone is taken for both bounds
flat_range_one_suffices(key, info) ==
    LET min_key == Field(key, "_RangeMin")
        max_key == Field(key, "_RangeMax")
    IN  IF min_key \in DOMAIN info
        THEN float_pair(info[min_key], info[min_key])
        ELSE IF max_key \in DOMAIN info
        THEN float_pair(info[max_key], info[max_key])
        ELSE NoRange

\* the flat-key branch of get_parameter_range (old firmware)
flat_range(key, info) ==
    LET min_key == Field(key, "_RangeMin")
        max_key == Field(key, "_RangeMax")
    IN  IF min_key \in DOMAIN info /\ max_key \in DOMAIN info
        THEN float_pair(info[min_key], info[max_key])
        ELSE NoRange

\* mutant: the answer to the range read of the call before is used again
\* for the same key
get_parameter_range_cached(key, resp) ==
    LET q == query(IF client.pc = "done" /\ client.key = key
                      THEN client.rresp ELSE resp)
    IN  IF q.exc = "RequestException"
        THEN [exc |-> q.exc, present |-> FALSE, min |-> 0, max |-> 0]
        ELSE IF q.exc # "" THEN NoRange
        ELSE LET info == q.map
                 range_block == Get(info, Field(key, "_Range"))
             IN  IF range_block.t = "dict"
                 THEN LET min_val == get_dict_value(range_block.d, MinKeys)
                          max_val == get_dict_value(range_block.d, MaxKeys)
                      IN  IF min_val.t # "none" /\ max_val.t # "none"
                          THEN float_pair(min_val, max_val)
                          ELSE flat_range(key, info)
                 ELSE flat_range(key, info)

\* mutant: the except clause catches a failed request as well
get_parameter_range_catches_all(key, resp) ==
    LET q == query(resp)
    IN  IF q.exc # "" THEN NoRange
        ELSE LET info == q.map
                 range_block == Get(info, Field(key, "_Range"))
             IN  IF range_block.t = "dict"
                 THEN LET min_val == get_dict_value(range_block.d, MinKeys)
                          max_val == get_dict_value(range_block.d, MaxKeys)
                      IN  IF min_val.t # "none" /\ max_val.t # "none"
                          THEN float_pair(min_val, max_val)
                          ELSE flat_range(key, info)
                 ELSE flat_range(key, info)

\* AtmoWebClient.get_parameter_range, given the device's answer to the read
get_parameter_range(key, resp) ==
    LET q == query(resp)
    IN  IF q.exc = "RequestException"
        THEN [exc |-> q.exc, present |-> FALSE, min |-> 0, max |-> 0]
        ELSE IF q.exc # "" THEN NoRange
        ELSE LET info == q.map
                 range_block == Get(info, Field(key, "_Range"))
             IN  IF range_block.t = "dict"
                 THEN LET min_val == get_dict_value(range_block.d, MinKeys)
                          max_val == get_dict_value(range_block.d, MaxKeys)
                      IN  IF min_val.t # "none" /\ max_val.t # "none"
                          THEN float_pair(min_val, max_val)
                          ELSE flat_range(key, info)
                 ELSE flat_range(key, info)

\* mutant: the bounds themselves are outside the range
in_range_exclusive(min_val, value, max_val) == min_val < value /\ value < max_val

\* mutant: only the lower bound is tested
in_range_lower_only(min_val, value, max_val) == min_val <= value

\* the range test of set_parameter: min_val <= value <= max_val
in_range(min_val, value, max_val) == min_val <= value /\ value <= max_val

error_values == {<<"N", "/", "A">>, <<"N", "/", "D">>,
                 <<"U", "N", "K", "N", "O", "W", "N">>}

\* mutant: the echoed token is compared without upper-casing
is_rejected_case_sensitive(result) ==
    result.t = "str" /\ strip(result.s) \in error_values

\* the rejection test of set_parameter on the echoed value
is_rejected(result) ==
    result.t = "str" /\ upper(strip(result.s)) \in error_values

ReadQuery(key) == [key |-> key, write |-> FALSE, val |-> 0]
WriteQuery(key, value) == [key |-> key, write |-> TRUE, val |-> value]

Outcome(queries, exc, ret) == [queries |-> queries, exc |-> exc, ret |-> ret]

\* mutant: the requested value is returned in place of the echo
send_value_returns_requested(key, value, wresp, sent) ==
    LET queries == Append(sent, WriteQuery(key, value))
        w == query(wresp)
    IN  IF w.exc # "" THEN Outcome(queries, w.exc, None)
        ELSE LET result == Get(w.map, Field(key, ""))
             IN  IF is_rejected(result)
                 THEN Outcome(queries, "KeyError", None)
                 ELSE Outcome(queries, "", Num(value))

\* mutant: the echo is not read back
send_value_drops_echo(key, value, wresp, sent) ==
    LET queries == Append(sent, WriteQuery(key, value))
        w == query(wresp)
    IN  IF w.exc # "" THEN Outcome(queries, w.exc, None)
        ELSE LET result == Get(w.map, Field(key, ""))
             IN  IF is_rejected(result)
                 THEN Outcome(queries, "KeyError", None)
                 ELSE Outcome(queries, "", None)

\* the write half of set_parameter: query(key=value), rejection test, echo
send_value(key, value, wresp, sent) ==
    LET queries == Append(sent, WriteQuery(key, value))
        w == query(wresp)
    IN  IF w.exc # "" THEN Outcome(queries, w.exc, None)
        ELSE LET result == Get(w.map, Field(key, ""))
             IN  IF is_rejected(result)
                 THEN Outcome(queries, "KeyError", None)
                 ELSE Outcome(queries, "", parse_numeric(result))

\* mutant: a missing range is treated as a validation failure
set_parameter_requires_range(key, value, rresp, wresp) ==
    LET f == to_float(value)
    IN  IF f.exc # "" THEN Outcome(<<>>, f.exc, None)
        ELSE LET param_range == get_parameter_range(key, rresp)
                 sent == <<ReadQuery(key)>>
             IN  IF param_range.exc # ""
                 THEN Outcome(sent, param_range.exc, None)
                 ELSE IF ~param_range.present
                         \/ ~in_range(param_range.min, f.n, param_range.max)
                 THEN Outcome(sent, "ValueError", None)
                 ELSE send_value(key, f.n, wresp, sent)

\* AtmoWebClient.set_parameter; rresp and wresp are the device's answers to
\* the range read and to the write, should they be asked for
set_parameter(key, value, rresp, wresp) ==
    LET f == to_float(value)
    IN  IF f.exc # "" THEN Outcome(<<>>, f.exc, None)
        ELSE LET param_range == get_parameter_range(key, rresp)
                 sent == <<ReadQuery(key)>>
             IN  IF param_range.exc # ""
                 THEN Outcome(sent, param_range.exc, None)
                 ELSE IF param_range.present
                         /\ ~in_range(param_range.min, f.n, param_range.max)
                 THEN Outcome(sent, "ValueError", None)
                 ELSE send_value(key, f.n, wresp, sent)

(***************************************************************************)
(* The device's possible answers, as bounded input sets.                   *)
(***************************************************************************)
Values == 0..MaxVal

\* bounds a device reports: numbers, a digit string, a non-numeric string
BoundVals == {Num(n) : n \in 1..(MaxVal - 1)} \cup {Str(<<"2">>), Str(<<"x">>)}

Absent == "absent"

\* a nested {key}_Range object with at most one min entry and one max entry
MkDict(mk, mv, xk, xv) ==
    [name \in ({mk, xk} \ {Absent}) |-> IF name = mk THEN mv ELSE xv]

NestedDicts ==
    {MkDict(mk, mv, xk, xv) :
        mk \in {Absent, "min", "Min", "MIN"}, mv \in BoundVals,
        xk \in {Absent, "max", "Max", "MAX"}, xv \in BoundVals}

\* what a response may hold under {key}_Range: nothing, a string, an object
RangeBlocks == {None, Str(<<"N", "/", "A">>)} \cup {Dict(d) : d \in NestedDicts}

FlatVals == {None} \cup BoundVals

\* a parsed response about wire key k with the given (possibly missing) fields
MkMap(k, echo, block, lo, hi) ==
    LET all == (Field(k, "") :> echo) @@ (Field(k, "_Range") :> block)
               @@ (Field(k, "_RangeMin") :> lo) @@ (Field(k, "_RangeMax") :> hi)
        have == {f \in DOMAIN all : all[f].t # "none"}
    IN  [f \in have |-> all[f]]

OtherKey(key) == IF key = "TempSet" THEN "HumSet" ELSE "TempSet"

\* answers to the range read of key: failures, range data in either firmware
\* shape (or both, or neither), and range data of another key
RangeAnswers(key) ==
    {NetError, BadBody}
    \cup {Body(MkMap(key, Num(1), b, lo, hi)) :
            b \in RangeBlocks, lo \in FlatVals, hi \in FlatVals}
    \cup {Body(MkMap(OtherKey(key), Num(1), None, Num(1), Num(1)))}

\* strings a device may echo: sentinel tokens in several letter cases, padded,
\* a digit string, a word, the empty string
EchoStrings ==
    {<<"N", "/", "A">>, <<"n", "/", "a">>, <<"N", "/", "a">>,
     <<"N", "/", "D">>, <<"n", "/", "d">>, <<"n", "/", "D">>,
     <<"U", "N", "K", "N", "O", "W", "N">>, <<"U", "n", "k", "n", "o", "w", "n">>,
     <<"u", "n", "k", "n", "o", "w", "n">>, <<"u", "n", "K", "n", "O", "w", "n">>,
     <<" ", "n", "/", "a", " ">>, <<"2">>, <<" ", "1">>, <<"o", "k">>, <<>>}

EchoVals == {Num(n) : n \in Values} \cup {Str(s) : s \in EchoStrings}
            \cup {Dict(EmptyDict)}

\* answers to the write of key: failures, an echo for the key, no echo, an
\* echo for another key only
WriteAnswers(key) ==
    {NetError, BadBody}
    \cup {Body(MkMap(key, e, None, None, None)) : e \in EchoVals \cup {None}}
    \cup {Body(MkMap(OtherKey(key), Num(1), None, None, None))}

ClientKeys == {"TempSet"}
ClientValues == {Num(n) : n \in Values} \cup {Str(<<"x">>)}

(***************************************************************************)
(* Stand-alone use of the client: one set_parameter call per step.         *)
(***************************************************************************)
NoClientCall ==
    [pc |-> "none", key |-> "", value |-> None, rresp |-> NetError,
     wresp |-> NetError, out |-> Outcome(<<>>, "", None), earlier |-> <<>>]

\* a caller about to invoke set_parameter(key, value)
Pending(key, value) == [NoClientCall EXCEPT !.pc = "pending", !.key = key,
                                            !.value = value]

\* AtmoWebClient.set_parameter(key, value) while the device answers the range
\* read with rresp and the write with wresp
SetParameter(rresp, wresp) ==
    /\ client.pc = "pending"
    /\ client' = [client EXCEPT !.pc = "done", !.rresp = rresp, !.wresp = wresp,
                     !.out = set_parameter(client.key, client.value, rresp, wresp)]
    /\ UNCHANGED <<daemon, response, schedule, executed_points, tolerance,
                   check_interval, call,
                   applyCount, setCount, run, status, main>>

(***************************************************************************)
(* The read operations: AtmoWebClient.get_setpoints and get_readings.      *)
(***************************************************************************)
READ_KEYS == {"Temp1Read", "HumRead", "CO2Read", "O2Read", "FanRead"}

\* the keys in the order the loops visit them (dict order)
SetpointKeys == <<"TempSet", "HumSet", "CO2Set", "O2Set", "FanSet">>
ReadingKeys == <<"Temp1Read", "HumRead", "CO2Read", "O2Read", "FanRead">>

Read(exc, value) == [exc |-> exc, value |-> value]

\* mutant: the loop body without its except clause
read_value_uncaught(key, resp) ==
    LET q == query(resp)
    IN  IF q.exc # "" THEN Read(q.exc, None)
        ELSE Read("", parse_numeric(Get(q.map, Field(key, ""))))

\* the loop body of get_setpoints and get_readings: query, parse, and None on
\* any exception
read_value(key, resp) ==
    LET q == query(resp)
    IN  IF q.exc # "" THEN Read("", None)
        ELSE Read("", parse_numeric(Get(q.map, Field(key, ""))))

NothingRead == [exc |-> "", values |-> EmptyDict, queries |-> <<>>]

\* the for loop from position pos on; an exception leaving the body ends it
RECURSIVE read_from(_, _, _, _)
read_from(keys, pos, answers, acc) ==
    IF pos > Len(keys) \/ acc.exc # "" THEN acc
    ELSE LET key == keys[pos]
             r == read_value(key, answers[key])
         IN  read_from(keys, pos + 1, answers,
                 [exc |-> r.exc,
                  values |-> IF r.exc = "" THEN acc.values @@ (key :> r.value)
                             ELSE acc.values,
                  queries |-> Append(acc.queries, ReadQuery(key))])

get_setpoints(answers) == read_from(SetpointKeys, 1, answers, NothingRead)
get_readings(answers) == read_from(ReadingKeys, 1, answers, NothingRead)

\* answers to the read of key: failures, a number, a digit string, a
\* sentinel, a body without the key
AnswerKinds == {"offline", "garbled", "number", "digits", "sentinel", "silent"}

ReadAnswer(key, kind) ==
    CASE kind = "offline" -> NetError
      [] kind = "garbled" -> BadBody
      [] kind = "number" -> Body(MkMap(key, Num(MaxVal), None, None, None))
      [] kind = "digits" -> Body(MkMap(key, Str(<<"2">>), None, None, None))
      [] kind = "sentinel" ->
            Body(MkMap(key, Str(<<"N", "/", "A">>), None, None, None))
      [] OTHER -> Body(MkMap(key, None, None, None, None))

NoStatus == [op |-> "none", answers |-> EmptyDict, out |-> NothingRead]

\* AtmoWebClient.get_setpoints()
GetSetpoints(answers) ==
    /\ status' = [op |-> "get_setpoints", answers |-> answers,
                  out |-> get_setpoints(answers)]
    /\ UNCHANGED <<daemon, response, schedule, executed_points, tolerance,
                   check_interval, call,
                   applyCount, setCount, client, run, main>>

\* AtmoWebClient.get_readings()
GetReadings(answers) ==
    /\ status' = [op |-> "get_readings", answers |-> answers,
                  out |-> get_readings(answers)]
    /\ UNCHANGED <<daemon, response, schedule, executed_points, tolerance,
                   check_interval, call,
                   applyCount, setCount, client, run, main>>

(***************************************************************************)
(* Schedule documents.  A timestamp string is its wall-clock fields and    *)
(* whether it ends in Z; a datetime is wall-clock fields, whether it is    *)
(* timezone-aware, and its UTC offset.                                     *)
(***************************************************************************)
Times == 0..MaxTime

Timestamp(w, z) == [wall |-> w, z |-> z]
Naive(w) == [wall |-> w, aware |-> FALSE, off |-> 0]
Aware(w, off) == [wall |-> w, aware |-> TRUE, off |-> off]

\* ScheduleExecutor.parse_timestamp: a trailing Z becomes +00:00
parse_timestamp(timestamp_str) ==
    IF timestamp_str.z THEN Aware(timestamp_str.wall, 0)
    ELSE Naive(timestamp_str.wall)

Sp(key, value) == [key |-> key, value |-> value]
Entry(ts, setpoints) == [timestamp |-> ts, setpoints |-> setpoints]

\* keys a schedule file may name: the wire keys, and one that is none
WireNames == PARAM_KEYS \cup {"PressSet"}

\* the most setpoints one entry holds: one for each wire key
MaxSetpoints == 5

\* the setpoints objects of the schedule files (in dict order): of the first
\* entry, of the second entry, one that names an unknown key, and one that
\* names every wire key
SetpointsAt(i) ==
    IF i = 1
    THEN <<Sp("TempSet", Num(1)), Sp("HumSet", Num(2))>>
    ELSE IF i = 2
    THEN <<Sp("HumSet", Num(1)), Sp("TempSet", Num(MaxVal)),
           Sp("CO2Set", Str(<<"x">>))>>
    ELSE IF i = 3
    THEN <<Sp("PressSet", Num(1)), Sp("TempSet", Num(1))>>
    ELSE <<Sp("TempSet", Num(1)), Sp("HumSet", Num(2)), Sp("CO2Set", Num(0)),
           Sp("O2Set", Num(MaxVal)), Sp("FanSet", Num(1))>>

SchedTimes == {1, 2, MaxTime - 1}

\* schedule documents of zero, one or two entries, in any order of time, each
\* timestamp naive or ending in Z
Documents ==
    {<<>>}
    \cup {<<Entry(Timestamp(w, z), SetpointsAt(1))>> :
            w \in SchedTimes, z \in BOOLEAN}
    \cup {<<Entry(Timestamp(w1, z1), SetpointsAt(1)),
            Entry(Timestamp(w2, z2), SetpointsAt(2))>> :
            w1 \in SchedTimes, w2 \in SchedTimes, z1 \in BOOLEAN, z2 \in BOOLEAN}
    \cup {<<Entry(Timestamp(w, FALSE), SetpointsAt(3))>> : w \in SchedTimes}
    \cup {<<Entry(Timestamp(2, FALSE), SetpointsAt(4))>>}

\* self.schedule: None, or the loaded document's list of entries
NoSchedule == [loaded |-> FALSE, entries |-> <<>>]
Loaded(doc) == [loaded |-> TRUE, entries |-> doc]

\* mutant: the identifier is the timestamp alone
PointId_timestamp_only(entry, idx) == <<entry.timestamp, 0>>

\* f"{entry['timestamp']}_{idx}": idx has no underscore, so the string
\* determines the pair (list positions are counted from 1 here)
PointId(entry, idx) == <<entry.timestamp, idx>>

(***************************************************************************)
(* The device during one executor operation: one behaviour per wire key.   *)
(***************************************************************************)
Behaviours == {"ok", "narrow", "clamp", "na", "offline", "garbled", "silent"}

Devices ==
    {[k \in WireNames |-> b] : b \in Behaviours}
    \cup {[k \in WireNames |-> IF k = "HumSet" THEN "na"
                               ELSE IF k = "TempSet" THEN "narrow" ELSE "ok"],
          [k \in WireNames |-> IF k = "TempSet" THEN "offline" ELSE "ok"]}

\* a device that accepts every write
Compliant == [k \in WireNames |-> "ok"]

NestedRange(key, lo, hi) ==
    Body(MkMap(key, Num(1), Dict(MkDict("min", Num(lo), "max", Num(hi))),
               None, None))

\* the device's answer to the range read of key
RangeAnswer(behaviour, key) ==
    CASE behaviour = "ok" -> NestedRange(key, 0, MaxVal)
      [] behaviour = "narrow" -> NestedRange(key, 1, 1)
      [] behaviour = "clamp" -> Body(MkMap(key, Num(1), None, None, None))
      [] behaviour = "na" -> Body(MkMap(key, Num(1), None, Num(0), Num(MaxVal)))
      [] behaviour = "offline" -> NetError
      [] behaviour = "garbled" -> BadBody
      [] OTHER -> NestedRange(key, 0, MaxVal)

\* the device's answer to the write key=value
WriteAnswer(behaviour, key, value) ==
    CASE behaviour \in {"ok", "narrow"} -> Body(MkMap(key, Num(value), None, None, None))
      [] behaviour = "clamp" ->
            Body(MkMap(key, Num(IF value > 1 THEN 1 ELSE value), None, None, None))
      [] behaviour = "na" -> Body(MkMap(key, Str(<<"n", "/", "a">>), None, None, None))
      [] behaviour = "offline" -> NetError
      [] behaviour = "garbled" -> BadBody
      [] OTHER -> Body(MkMap(key, None, None, None, None))

\* client.set_parameter(key, value) against the device
device_set_parameter(device, key, value) ==
    LET f == to_float(value)
        n == IF f.exc = "" THEN f.n ELSE 0
    IN  set_parameter(key, value, RangeAnswer(device[key], key),
                      WriteAnswer(device[key], key, n))

(***************************************************************************)
(* ScheduleExecutor.apply_setpoints                                        *)
(***************************************************************************)
NoResults == [success |-> <<>>, failed |-> <<>>, not_available |-> <<>>]

\* mutant: a KeyError is filed with the failures
record_outcome_two_buckets(results, sp, out) ==
    IF out.exc = ""
    THEN [results EXCEPT !.success =
            Append(@, [parameter |-> sp.key, requested |-> sp.value,
                       actual |-> out.ret])]
    ELSE [results EXCEPT !.failed =
            Append(@, [parameter |-> sp.key, value |-> sp.value])]

\* mutant: there is no catch-all clause, the setpoint reaches no bucket
record_outcome_listed_only(results, sp, out) ==
    CASE out.exc = "" ->
            [results EXCEPT !.success =
                Append(@, [parameter |-> sp.key, requested |-> sp.value,
                           actual |-> out.ret])]
      [] IsValueError(out.exc) ->
            [results EXCEPT !.failed =
                Append(@, [parameter |-> sp.key, value |-> sp.value])]
      [] out.exc = "KeyError" ->
            [results EXCEPT !.not_available =
                Append(@, [parameter |-> sp.key, value |-> sp.value])]
      [] OTHER -> results

\* one pass of the loop body: the try block and its except clauses
record_outcome(results, sp, out) ==
    CASE out.exc = "" ->
            [results EXCEPT !.success =
                Append(@, [parameter |-> sp.key, requested |-> sp.value,
                           actual |-> out.ret])]
      [] IsValueError(out.exc) ->
            [results EXCEPT !.failed =
                Append(@, [parameter |-> sp.key, value |-> sp.value])]
      [] out.exc = "KeyError" ->
            [results EXCEPT !.not_available =
                Append(@, [parameter |-> sp.key, value |-> sp.value])]
      [] OTHER ->
            [results EXCEPT !.failed =
                Append(@, [parameter |-> sp.key, value |-> sp.value])]

Tagged(queries, pos) ==
    [i \in 1..Len(queries) |->
        [pos |-> pos, key |-> queries[i].key, write |-> queries[i].write,
         val |-> queries[i].val]]

RECURSIVE apply_from(_, _, _, _)
apply_from(setpoints, pos, device, acc) ==
    IF pos > Len(setpoints) THEN acc
    ELSE LET sp == setpoints[pos]
             out == device_set_parameter(device, sp.key, sp.value)
         IN  apply_from(setpoints, pos + 1, device,
                 [results |-> record_outcome(acc.results, sp, out),
                  queries |-> acc.queries \o Tagged(out.queries, pos),
                  calls |-> Append(acc.calls, pos),
                  raised |-> Append(acc.raised, out.exc)])

apply_setpoints(setpoints, device) ==
    apply_from(setpoints, 1, device,
               [results |-> NoResults, queries |-> <<>>, calls |-> <<>>,
                raised |-> <<>>])

(***************************************************************************)
(* ScheduleExecutor.check_and_execute                                      *)
(***************************************************************************)
\* datetime.replace(tzinfo=None) and datetime.replace(tzinfo=timezone.utc)
strip_tzinfo(dt) == Naive(dt.wall)
as_utc(dt) == Aware(dt.wall, 0)

\* (a - b).total_seconds() for two naive or two aware datetimes
total_seconds(a, b) == (a.wall - a.off) - (b.wall - b.off)

\* lines 166-180: reconcile timezone awareness, then subtract
time_difference(now, scheduled_time) ==
    IF ~scheduled_time.aware
    THEN total_seconds(strip_tzinfo(now), strip_tzinfo(scheduled_time))
    ELSE LET now_compare == IF now.aware THEN now ELSE as_utc(now)
         IN  total_seconds(now_compare, scheduled_time)

\* mutant: the executed-set test is lost
already_executed_never(point_id, executed) == FALSE

\* line 163: point_id in self.executed_points
already_executed(point_id, executed) == point_id \in executed

\* mutant: the window is open at both ends
is_due_exclusive(time_diff, tol) == -tol < time_diff /\ time_diff < tol

\* line 182: -self.tolerance <= time_diff <= self.tolerance
is_due(time_diff, tol) == -tol <= time_diff /\ time_diff <= tol

\* mutant: the entry is marked executed only when no setpoint failed
execute_entry_unless_failed(acc, entry, idx, point_id, device) ==
    LET r == apply_setpoints(entry.setpoints, device)
    IN  [executed_points |->
            IF r.results.failed = <<>> /\ r.results.not_available = <<>>
            THEN acc.executed_points \cup {point_id}
            ELSE acc.executed_points,
         executed |-> TRUE,
         applied |-> Append(acc.applied,
                        [idx |-> idx, point_id |-> point_id,
                         calls |-> r.calls, results |-> r.results,
                         queries |-> r.queries, raised |-> r.raised])]

\* mutant: the entry is applied but never marked executed
execute_entry_unmarked(acc, entry, idx, point_id, device) ==
    LET r == apply_setpoints(entry.setpoints, device)
    IN  [executed_points |-> acc.executed_points,
         executed |-> TRUE,
         applied |-> Append(acc.applied,
                        [idx |-> idx, point_id |-> point_id,
                         calls |-> r.calls, results |-> r.results,
                         queries |-> r.queries, raised |-> r.raised])]

\* mutant: marking an entry forgets the entries marked before it
execute_entry_forgetful(acc, entry, idx, point_id, device) ==
    LET r == apply_setpoints(entry.setpoints, device)
    IN  [executed_points |-> {point_id},
         executed |-> TRUE,
         applied |-> Append(acc.applied,
                        [idx |-> idx, point_id |-> point_id,
                         calls |-> r.calls, results |-> r.results,
                         queries |-> r.queries, raised |-> r.raised])]

\* lines 188-193: apply the entry, then mark it executed
execute_entry(acc, entry, idx, point_id, device) ==
    LET r == apply_setpoints(entry.setpoints, device)
    IN  [executed_points |-> acc.executed_points \cup {point_id},
         executed |-> TRUE,
         applied |-> Append(acc.applied,
                        [idx |-> idx, point_id |-> point_id,
                         calls |-> r.calls, results |-> r.results,
                         queries |-> r.queries, raised |-> r.raised])]

\* mutant: the loop stops after the first entry it applies
RECURSIVE check_from_first_only(_, _, _, _, _, _)
check_from_first_only(entries, idx, tol, now, device, acc) ==
    IF idx > Len(entries) THEN acc
    ELSE LET entry == entries[idx]
             point_id == PointId(entry, idx)
             time_diff == time_difference(now, parse_timestamp(entry.timestamp))
         IN  IF already_executed(point_id, acc.executed_points)
             THEN check_from_first_only(entries, idx + 1, tol, now, device, acc)
             ELSE IF is_due(time_diff, tol)
             THEN execute_entry(acc, entry, idx, point_id, device)
             ELSE check_from_first_only(entries, idx + 1, tol, now, device, acc)

\* mutant: the loop walks the list from its last entry to its first
RECURSIVE check_from_descending(_, _, _, _, _, _)
check_from_descending(entries, idx, tol, now, device, acc) ==
    IF idx > Len(entries) THEN acc
    ELSE LET at == Len(entries) + 1 - idx
             entry == entries[at]
             point_id == PointId(entry, at)
             time_diff == time_difference(now, parse_timestamp(entry.timestamp))
         IN  IF already_executed(point_id, acc.executed_points)
             THEN check_from_descending(entries, idx + 1, tol, now, device, acc)
             ELSE IF is_due(time_diff, tol)
             THEN check_from_descending(entries, idx + 1, tol, now, device,
                             execute_entry(acc, entry, at, point_id, device))
             ELSE check_from_descending(entries, idx + 1, tol, now, device, acc)

\* the for loop of check_and_execute from list position idx on
RECURSIVE check_from(_, _, _, _, _, _)
check_from(entries, idx, tol, now, device, acc) ==
    IF idx > Len(entries) THEN acc
    ELSE LET entry == entries[idx]
             point_id == PointId(entry, idx)
             time_diff == time_difference(now, parse_timestamp(entry.timestamp))
         IN  IF already_executed(point_id, acc.executed_points)
             THEN check_from(entries, idx + 1, tol, now, device, acc)
             ELSE IF is_due(time_diff, tol)
             THEN check_from(entries, idx + 1, tol, now, device,
                             execute_entry(acc, entry, idx, point_id, device))
             ELSE check_from(entries, idx + 1, tol, now, device, acc)

check_and_execute(sched, executed, tol, now, device) ==
    LET start == [executed_points |-> executed, executed |-> FALSE,
                  applied |-> <<>>]
    IN  IF ~sched.loaded THEN start
        ELSE check_from(sched.entries, 1, tol, now, device, start)

(***************************************************************************)
(* The files of the sync programs (schedule_watcher.py, memmert_daemon.py, *)
(* memmert_daemon_autonomous.py): the schedule file with its modification  *)
(* time, and the tracker file data/.schedule_last_modified, None when it   *)
(* does not exist and its text otherwise.                                  *)
(***************************************************************************)
SchedFile(kind, doc) == [kind |-> kind, doc |-> doc]

OnDisk(exists, mtime, content) ==
    [exists |-> exists, mtime |-> mtime, content |-> content]

\* what the most recent schedule check did: whether it compared the times,
\* whether it ran the scheduler (or applied the schedule), how that ended,
\* the times it compared, the tracker it found, what it raised, whether
\* the file of this modification time had been handled before (handled: the
\* modification times for which the scheduler has run, or, in the
\* autonomous daemon, for which the schedule was applied in full), and
\* whether the check before it ran into a failed application
NoCycle ==
    [checked |-> FALSE, launched |-> FALSE, outcome |-> "", success |-> FALSE,
     current_mtime |-> 0, before |-> None, exc |-> "", applied |-> <<>>,
     errors |-> <<>>, again |-> FALSE, after_failure |-> FALSE]

NoDaemon ==
    [program |-> "none", pc |-> "idle", clock |-> 0, last_log_time |-> 0,
     last_sync_time |-> 0, file |-> OnDisk(FALSE, 0, SchedFile("missing", <<>>)),
     tracker |-> None, writable |-> TRUE, cycle |-> NoCycle, handled |-> {},
     checks |-> 0]

(***************************************************************************)
(* The executor driven through its operations.                             *)
(***************************************************************************)
Tolerances == 0..MaxTol

\* datetimes a caller may pass as now: naive ones, and aware ones at UTC+1
Nows == {Naive(w) : w \in Times} \cup {Aware(w, 1) : w \in {2, 3}}

\* the position of run_continuous: idle, poll, sleep, done, raised, stopped
Running(pc, clock, first, duration_hours, capped, end_time, why) ==
    [pc |-> pc, clock |-> clock, first |-> first,
     duration_hours |-> duration_hours, capped |-> capped,
     end_time |-> end_time, why |-> why]

NotRunning == Running("idle", 0, 0, None, FALSE, 0, "")

\* the result of get_next_scheduled_time: an exception, None, or a datetime
NoTime == [exc |-> "", found |-> FALSE, time |-> Naive(0)]

\* main() before its first statement
NotStarted == [pc |-> "init", code |-> 0, exc |-> "", file |-> ""]

NoCall ==
    [op |-> "none", now |-> Naive(0), before |-> {}, applied |-> <<>>,
     ret |-> FALSE, repeat |-> FALSE, next |-> NoTime, interrupted |-> <<>>]

PointIds(sched) == {PointId(sched[i], i) : i \in 1..Len(sched)}

\* how often point id p occurs among the entries applied by one operation
Applications(applied, p) ==
    Cardinality({i \in 1..Len(applied) : applied[i].point_id = p})

\* how often one operation called set_parameter for setpoint pos of point id p
SetCalls(applied, p, pos) ==
    Cardinality({ij \in (1..Len(applied)) \X (1..MaxSetpoints) :
        /\ applied[ij[1]].point_id = p
        /\ ij[2] <= Len(applied[ij[1]].calls)
        /\ applied[ij[1]].calls[ij[2]] = pos})

Init ==
    /\ schedule = NoSchedule
    /\ executed_points = {}
    /\ tolerance \in Tolerances
    /\ check_interval = 30
    /\ call = NoCall
    /\ applyCount = EmptyDict
    /\ setCount = EmptyDict
    /\ client = NoClientCall
    /\ run = NotRunning
    /\ status = NoStatus
    /\ main = NotStarted
    /\ response = NoResponse
    /\ daemon = NoDaemon

\* ScheduleExecutor.load_schedule on a well-formed schedule file
LoadSchedule(doc) ==
    /\ schedule = NoSchedule
    /\ schedule' = Loaded(doc)
    /\ call' = [NoCall EXCEPT !.op = "load"]
    /\ applyCount' = [p \in PointIds(doc) |-> 0]
    /\ setCount' = [pk \in PointIds(doc) \X (1..MaxSetpoints) |-> 0]
    /\ UNCHANGED <<daemon, response, executed_points, tolerance, check_interval,
                   client, run, status,
                   main>>

\* ScheduleExecutor.check_and_execute(now)
CheckAndExecute(now, device) ==
    \E r \in {check_and_execute(schedule, executed_points, tolerance, now, device)} :
        /\ executed_points' = r.executed_points
        /\ call' = [op |-> "check", now |-> now, before |-> executed_points,
                    applied |-> r.applied, ret |-> r.executed,
                    repeat |-> call.op = "check" /\ call.ret /\ call.now = now,
                    next |-> NoTime, interrupted |-> <<>>]
        /\ applyCount' = [p \in DOMAIN applyCount |->
                            applyCount[p] + Applications(r.applied, p)]
        /\ setCount' = [pk \in DOMAIN setCount |->
                            setCount[pk] + SetCalls(r.applied, pk[1], pk[2])]
        /\ UNCHANGED <<daemon, response, schedule, tolerance, check_interval, client, run, status,
                   main>>

Next ==
    \/ \E doc \in Documents : LoadSchedule(doc)
    \/ \E now \in Nows, device \in Devices : CheckAndExecute(now, device)

Spec == Init /\ [][Next]_vars

\* the client on its own: one set_parameter call
InitClient ==
    /\ schedule = NoSchedule
    /\ executed_points = {}
    /\ tolerance = 0
    /\ check_interval = 30
    /\ call = NoCall
    /\ applyCount = EmptyDict
    /\ setCount = EmptyDict
    /\ client \in {Pending(key, value) : key \in ClientKeys, value \in ClientValues}
    /\ run = NotRunning
    /\ status = NoStatus
    /\ main = NotStarted
    /\ response = NoResponse
    /\ daemon = NoDaemon

NextClient ==
    /\ client.pc = "pending"
    /\ \E rresp \in RangeAnswers(client.key), wresp \in WriteAnswers(client.key) :
            SetParameter(rresp, wresp)

SpecClient == InitClient /\ [][NextClient]_vars

\* a sequence of set_parameter calls on one client while the device changes
\* the range it reports from call to call; earlier keeps the key and the
\* range answer of each call before the most recent one
MaxCalls == 2

CallKeys == {"TempSet", "HumSet"}
CallRanges(key) ==
    {NestedRange(key, 0, MaxVal), NestedRange(key, 1, 1),
     Body(MkMap(key, Num(1), None, None, None)), NetError}
CallEchoes(key, value) ==
    {Body(MkMap(key, Num(value), None, None, None)), NetError}

SetParameterCall(key, value, rresp, wresp) ==
    /\ client.pc \in {"none", "done"}
    /\ Len(client.earlier) < MaxCalls - 1 \/ client.pc = "none"
    /\ client' = [pc |-> "done", key |-> key, value |-> Num(value),
                  rresp |-> rresp, wresp |-> wresp,
                  out |-> set_parameter(key, Num(value), rresp, wresp),
                  earlier |-> IF client.pc = "none" THEN <<>>
                              ELSE Append(client.earlier,
                                          [key |-> client.key,
                                           rresp |-> client.rresp])]
    /\ UNCHANGED <<daemon, response, schedule, executed_points, tolerance,
                   check_interval, call, applyCount, setCount, run, status,
                   main>>

NextCalls ==
    \E key \in CallKeys, value \in Values :
        \E rresp \in CallRanges(key), wresp \in CallEchoes(key, value) :
            SetParameterCall(key, value, rresp, wresp)

SpecCalls == Init /\ [][NextCalls]_vars

\* the read operations on their own: one call, any mixture of answers
AnswerMaps(keys) ==
    {[k \in keys |-> ReadAnswer(k, kind[k])] : kind \in [keys -> AnswerKinds]}

NextRead ==
    /\ status.op = "none"
    /\ \/ \E answers \in AnswerMaps(PARAM_KEYS) : GetSetpoints(answers)
       \/ \E answers \in AnswerMaps(READ_KEYS) : GetReadings(answers)

SpecRead == Init /\ [][NextRead]_vars

(***************************************************************************)
(* ScheduleExecutor.get_next_scheduled_time and run_continuous             *)
(***************************************************************************)
\* a > b for two naive or two aware datetimes
later_than(a, b) == (a.wall - a.off) > (b.wall - b.off)

\* mutant: the wall-clock fields are compared whatever the timezone
in_future_wall_clock(now, scheduled_time) ==
    later_than(strip_tzinfo(scheduled_time), strip_tzinfo(now))

\* lines 226-239: is the entry's time after now, awareness reconciled as in
\* check_and_execute
in_future(now, scheduled_time) ==
    IF ~scheduled_time.aware
    THEN later_than(strip_tzinfo(scheduled_time), strip_tzinfo(now))
    ELSE later_than(scheduled_time, IF now.aware THEN now ELSE as_utc(now))

\* the list future_times built by the loop of get_next_scheduled_time
future_times(sched, executed, now) ==
    {parse_timestamp(sched.entries[idx].timestamp) : idx \in
        {i \in 1..Len(sched.entries) :
            /\ ~already_executed(PointId(sched.entries[i], i), executed)
            /\ in_future(now, parse_timestamp(sched.entries[i].timestamp))}}

\* mutant: there is no test for a missing schedule, and subscripting None
\* raises TypeError
get_next_scheduled_time_unguarded(sched, executed, now) ==
    IF ~sched.loaded THEN [NoTime EXCEPT !.exc = "TypeError"]
    ELSE LET future == future_times(sched, executed, now)
         IN  IF future = {} THEN NoTime
             ELSE IF \E a \in future, b \in future : a.aware # b.aware
             THEN [NoTime EXCEPT !.exc = "TypeError"]
             ELSE [exc |-> "", found |-> TRUE,
                   time |-> CHOOSE t \in future :
                                \A u \in future : ~later_than(t, u)]

\* ScheduleExecutor.get_next_scheduled_time: min() of a list that mixes naive
\* and aware datetimes raises TypeError
get_next_scheduled_time(sched, executed, now) ==
    IF ~sched.loaded THEN NoTime
    ELSE LET future == future_times(sched, executed, now)
         IN  IF future = {} THEN NoTime
             ELSE IF \E a \in future, b \in future : a.aware # b.aware
             THEN [NoTime EXCEPT !.exc = "TypeError"]
             ELSE [exc |-> "", found |-> TRUE,
                   time |-> CHOOSE t \in future :
                                \A u \in future : ~later_than(t, u)]

\* (next_time - now).total_seconds(): subtracting a naive datetime from an
\* aware one (or the reverse) raises TypeError
time_until(next_time, now) ==
    IF next_time.aware # now.aware THEN Raised("TypeError")
    ELSE Converted(total_seconds(next_time, now))

\* ScheduleExecutor.get_next_scheduled_time(now) called on its own
GetNextScheduledTime(now) ==
    /\ call' = [NoCall EXCEPT !.op = "next", !.now = now,
                               !.before = executed_points,
                               !.next = get_next_scheduled_time(schedule,
                                            executed_points, now)]
    /\ UNCHANGED <<daemon, response, schedule, executed_points, tolerance, check_interval,
                   applyCount, setCount, client, run, status, main>>

\* the executor with its next-time query among the operations
NextQuery ==
    \/ \E doc \in Documents : LoadSchedule(doc)
    \/ \E now \in Nows : CheckAndExecute(now, Compliant)
    \/ \E now \in Nows : GetNextScheduledTime(now)

SpecQuery == Init /\ [][NextQuery]_vars

CheckIntervals == 1..(2 * MaxTol + 1)
MaxLag == 1
LastClock == MaxTime + 2

\* duration_hours: None (the default), zero, or a positive span
Durations == {None, Num(0), Num(MaxTime - 2)}

\* the truth value of an Optional[float]: None and 0.0 are false
truthy(v) == v.t = "num" /\ v.n # 0

InitRun ==
    /\ schedule = NoSchedule
    /\ executed_points = {}
    /\ tolerance \in Tolerances
    /\ check_interval \in CheckIntervals
    /\ call = NoCall
    /\ applyCount = EmptyDict
    /\ setCount = EmptyDict
    /\ client = NoClientCall
    /\ run = NotRunning
    /\ status = NoStatus
    /\ main = NotStarted
    /\ response = NoResponse
    /\ daemon = NoDaemon

\* run_continuous up to the loop: start_time, end_time
StartRun(clock, duration) ==
    /\ schedule.loaded
    /\ run.pc = "idle"
    /\ run' = Running("poll", clock, clock, duration, truthy(duration),
                      clock + duration.n, "")
    /\ UNCHANGED <<daemon, response, schedule, executed_points, tolerance,
                   check_interval, call,
                   applyCount, setCount, client, status, main>>

\* where one pass of the loop body leaves the loop, after check_and_execute
\* left executed as the execution record
after_check(now, executed) ==
    LET next_time == get_next_scheduled_time(schedule, executed, now)
    IN  IF next_time.exc # "" THEN <<"raised", next_time.exc>>
        ELSE IF ~next_time.found THEN <<"done", "exhausted">>
        ELSE IF time_until(next_time.time, now).exc # ""
        THEN <<"raised", time_until(next_time.time, now).exc>>
        ELSE <<"sleep", "">>

\* one pass of the while loop of run_continuous, up to the sleep
Poll(device) ==
    /\ run.pc = "poll"
    /\ LET now == Naive(run.clock)
       IN  IF run.capped /\ run.clock >= run.end_time
           THEN /\ run' = [run EXCEPT !.pc = "done", !.why = "duration"]
                /\ UNCHANGED <<executed_points, call, applyCount, setCount>>
           ELSE \E r \in {check_and_execute(schedule, executed_points,
                                            tolerance, now, device)} :
                \E exit \in {after_check(now, r.executed_points)} :
                    /\ executed_points' = r.executed_points
                    /\ call' = [op |-> "check", now |-> now,
                                before |-> executed_points,
                                applied |-> r.applied, ret |-> r.executed,
                                repeat |-> FALSE, next |-> NoTime,
                                interrupted |-> <<>>]
                    /\ applyCount' = [p \in DOMAIN applyCount |->
                            applyCount[p] + Applications(r.applied, p)]
                    /\ setCount' = [pk \in DOMAIN setCount |->
                            setCount[pk] + SetCalls(r.applied, pk[1], pk[2])]
                    /\ run' = [run EXCEPT !.pc = exit[1], !.why = exit[2]]
    /\ UNCHANGED <<daemon, response, schedule, tolerance, check_interval, client, status, main>>

\* time.sleep(check_interval): the next pass starts check_interval later, or
\* later still by the time the pass before it took
Sleep(lag) ==
    /\ run.pc = "sleep"
    /\ run.clock + check_interval + lag <= LastClock
    /\ run' = [run EXCEPT !.pc = "poll", !.clock = @ + check_interval + lag]
    /\ UNCHANGED <<daemon, response, schedule, executed_points, tolerance,
                   check_interval, call,
                   applyCount, setCount, client, status, main>>

\* the queries of set_parameter that are out when KeyboardInterrupt arrives
\* during its range read ("read") or during its write ("write")
in_flight(device, sp, stage) ==
    LET out == device_set_parameter(device, sp.key, sp.value)
    IN  IF stage = "read" /\ out.queries # <<>> THEN <<out.queries[1]>>
        ELSE out.queries

\* apply_setpoints on the entry at idx cut short by KeyboardInterrupt in the
\* set_parameter call of setpoint done + 1: no except clause of the loop
\* body catches it (KeyboardInterrupt is no Exception)
interrupted_apply(entry, idx, device, done, stage) ==
    LET complete == apply_setpoints(SubSeq(entry.setpoints, 1, done), device)
        sp == entry.setpoints[done + 1]
    IN  [idx |-> idx, point_id |-> PointId(entry, idx),
         calls |-> Append(complete.calls, done + 1),
         results |-> complete.results,
         queries |-> complete.queries
                     \o Tagged(in_flight(device, sp, stage), done + 1),
         raised |-> Append(complete.raised, "KeyboardInterrupt")]

\* one pass of the while loop in which KeyboardInterrupt arrives while
\* check_and_execute applies the entry at idx: the exception leaves
\* apply_setpoints and check_and_execute (line 192 is not reached) and is
\* caught at line 290
PollInterrupted(device, idx, done, stage) ==
    /\ run.pc = "poll"
    /\ ~(run.capped /\ run.clock >= run.end_time)
    /\ idx \in 1..Len(schedule.entries)
    /\ done < Len(schedule.entries[idx].setpoints)
    /\ LET now == Naive(run.clock)
           entry == schedule.entries[idx]
           point_id == PointId(entry, idx)
       IN  \E r \in {check_and_execute(
                        [schedule EXCEPT !.entries = SubSeq(@, 1, idx - 1)],
                        executed_points, tolerance, now, device)} :
           \E cut \in {interrupted_apply(entry, idx, device, done, stage)} :
                /\ ~already_executed(point_id, r.executed_points)
                /\ is_due(time_difference(now, parse_timestamp(entry.timestamp)),
                          tolerance)
                /\ Len(in_flight(device, entry.setpoints[done + 1], stage))
                        = (IF stage = "read" THEN 1 ELSE 2)
                /\ executed_points' = r.executed_points
                /\ call' = [op |-> "check", now |-> now,
                            before |-> executed_points,
                            applied |-> r.applied, ret |-> FALSE,
                            repeat |-> FALSE, next |-> NoTime,
                            interrupted |-> <<cut>>]
                /\ applyCount' = [p \in DOMAIN applyCount |->
                        applyCount[p] + Applications(Append(r.applied, cut), p)]
                /\ setCount' = [pk \in DOMAIN setCount |->
                        setCount[pk]
                        + SetCalls(Append(r.applied, cut), pk[1], pk[2])]
                /\ run' = [run EXCEPT !.pc = "stopped",
                                      !.why = "KeyboardInterrupt"]
    /\ UNCHANGED <<schedule, tolerance, check_interval, client, status, main,
                   response, daemon>>

\* KeyboardInterrupt during the sleep
Interrupt ==
    /\ run.pc = "sleep"
    /\ run' = [run EXCEPT !.pc = "stopped", !.why = "KeyboardInterrupt"]
    /\ UNCHANGED <<daemon, response, schedule, executed_points, tolerance,
                   check_interval, call,
                   applyCount, setCount, client, status, main>>

NextRun ==
    \/ \E doc \in Documents : LoadSchedule(doc)
    \/ \E clock \in {0, 2}, duration \in Durations : StartRun(clock, duration)
    \/ \E device \in Devices : Poll(device)
    \/ \E lag \in 0..MaxLag : Sleep(lag)
    \/ Interrupt
    \/ \E idx \in 1..2, done \in 0..(MaxSetpoints - 1),
          stage \in {"read", "write"} :
            PollInterrupted(Compliant, idx, done, stage)

SpecRun == InitRun /\ [][NextRun]_vars

(***************************************************************************)
(* main() of memmert_scheduler.py: connect, load the schedule, run.        *)
(***************************************************************************)
\* what the schedule file may be
Files ==
    {SchedFile(kind, <<>>) :
        kind \in {"missing", "not_json", "no_schedule_key", "schedule_not_list"}}
    \cup {SchedFile("ok", doc) : doc \in Documents}

\* ScheduleExecutor.load_schedule: the exception raised, if any, and
\* self.schedule afterwards
load_schedule(file, current) ==
    CASE file.kind = "missing" ->
            [exc |-> "FileNotFoundError", schedule |-> current]
      [] file.kind = "not_json" ->
            [exc |-> "JSONDecodeError", schedule |-> current]
      [] file.kind \in {"no_schedule_key", "schedule_not_list"} ->
            [exc |-> "ValueError", schedule |-> current]
      [] OTHER -> [exc |-> "", schedule |-> Loaded(file.doc)]

Exit(code, exc) == [pc |-> "exited", code |-> code, exc |-> exc]

\* mutant: main goes on to run whatever load_schedule raised
main_ignores_load_error(exc) == [pc |-> "loaded", code |-> 0, exc |-> ""]

\* lines 396-416: an exception of load_schedule reaches one of the except
\* clauses, each of which returns 1
main_after_load(exc) ==
    IF exc # "" THEN Exit(1, exc) ELSE [pc |-> "loaded", code |-> 0, exc |-> ""]

\* lines 377-386: create the client and read the setpoints once
MainConnect(answers) ==
    /\ main.pc = "init"
    /\ \E out \in {get_setpoints(answers)} :
        /\ status' = [op |-> "get_setpoints", answers |-> answers, out |-> out]
        /\ main' = IF out.exc # ""
                   THEN [main EXCEPT !.pc = "exited", !.code = 1, !.exc = out.exc]
                   ELSE [main EXCEPT !.pc = "connected"]
    /\ UNCHANGED <<daemon, response, schedule, executed_points, tolerance,
                   check_interval, call,
                   applyCount, setCount, client, run>>

\* lines 389-399: create the executor and load the schedule
MainLoad(file) ==
    /\ main.pc = "connected"
    /\ \E r \in {load_schedule(file, schedule)} :
        \E m \in {main_after_load(r.exc)} :
            /\ schedule' = r.schedule
            /\ main' = [pc |-> m.pc, code |-> m.code, exc |-> m.exc,
                        file |-> file.kind]
            /\ call' = [NoCall EXCEPT !.op = "load"]
            /\ applyCount' = [p \in PointIds(r.schedule.entries) |->
                    IF p \in DOMAIN applyCount THEN applyCount[p] ELSE 0]
            /\ setCount' =
                    [pk \in PointIds(r.schedule.entries) \X (1..MaxSetpoints) |->
                        IF pk \in DOMAIN setCount THEN setCount[pk] ELSE 0]
    /\ UNCHANGED <<daemon, response, executed_points, tolerance, check_interval,
                   client, run, status>>

\* the exception run_once ends with, if any, after check_and_execute
run_once_bookkeeping(now, r) ==
    IF r.executed THEN ""
    ELSE LET next_time == get_next_scheduled_time(schedule, r.executed_points, now)
         IN  IF next_time.exc # "" THEN next_time.exc
             ELSE IF ~next_time.found THEN ""
             ELSE time_until(next_time.time, now).exc

\* lines 402-403 and 407: executor.run_once(), then return 0, or 1 from the
\* except clause
MainRunOnce(now, device) ==
    /\ main.pc = "loaded"
    /\ run.pc = "idle"
    /\ \E r \in {check_and_execute(schedule, executed_points, tolerance, now,
                                   device)} :
        \E exc \in {run_once_bookkeeping(now, r)} :
            /\ executed_points' = r.executed_points
            /\ call' = [op |-> "check", now |-> now, before |-> executed_points,
                        applied |-> r.applied, ret |-> r.executed,
                        repeat |-> FALSE, next |-> NoTime,
                        interrupted |-> <<>>]
            /\ applyCount' = [p \in DOMAIN applyCount |->
                                applyCount[p] + Applications(r.applied, p)]
            /\ setCount' = [pk \in DOMAIN setCount |->
                                setCount[pk] + SetCalls(r.applied, pk[1], pk[2])]
            /\ main' = [main EXCEPT !.pc = "exited",
                                    !.code = IF exc = "" THEN 0 ELSE 1,
                                    !.exc = exc]
    /\ UNCHANGED <<daemon, response, schedule, tolerance, check_interval, client, run,
                   status>>

\* lines 404-405: executor.run_continuous(duration_hours=args.duration)
MainRunContinuous(clock, duration) ==
    /\ main.pc = "loaded"
    /\ StartRun(clock, duration)

\* line 407 and lines 415-416 after run_continuous: return 0, or 1 when it
\* raised
MainReturn ==
    /\ main.pc = "loaded"
    /\ run.pc \in {"done", "stopped", "raised"}
    /\ main' = [main EXCEPT !.pc = "exited",
                            !.code = IF run.pc = "raised" THEN 1 ELSE 0,
                            !.exc = IF run.pc = "raised" THEN run.why ELSE ""]
    /\ UNCHANGED <<daemon, response, schedule, executed_points, tolerance,
                   check_interval, call,
                   applyCount, setCount, client, run, status>>

\* the device at connection time: answering every read, or not at all
ConnectAnswers ==
    {[k \in PARAM_KEYS |-> ReadAnswer(k, kind)] : kind \in {"number", "offline"}}

NextMain ==
    \/ \E answers \in ConnectAnswers : MainConnect(answers)
    \/ \E file \in Files : MainLoad(file)
    \/ \E w \in Times, device \in Devices : MainRunOnce(Naive(w), device)
    \/ \E clock \in {0, 2}, duration \in Durations :
            MainRunContinuous(clock, duration)
    \/ \E device \in Devices : Poll(device)
    \/ \E lag \in 0..MaxLag : Sleep(lag)
    \/ Interrupt
    \/ MainReturn

SpecMain == InitRun /\ [][NextMain]_vars

(***************************************************************************)
(* One process after another: each run of memmert_scheduler.py --once      *)
(* builds its own ScheduleExecutor.  applyCount and setCount go on counting *)
(* what reached the device across the processes.                           *)
(***************************************************************************)
\* the most applications of one entry after which another process is started
MaxApplied == 2

\* mutant: the record of the process before is read back
executed_points_restored == executed_points

\* line 36: self.executed_points = set()
executed_points_at_init == {}

\* the process has exited and the script is started again: argparse, logging
\* and, after the connection, ScheduleExecutor.__init__ (lines 31-36)
Relaunch ==
    /\ main.pc = "exited"
    /\ \A p \in DOMAIN applyCount : applyCount[p] < MaxApplied
    /\ main' = NotStarted
    /\ schedule' = NoSchedule
    /\ executed_points' = executed_points_at_init
    /\ call' = NoCall
    /\ status' = NoStatus
    /\ UNCHANGED <<tolerance, check_interval, applyCount, setCount, client,
                   run, response, daemon>>

NextRestart ==
    \/ \E answers \in ConnectAnswers : MainConnect(answers)
    \/ \E file \in Files : MainLoad(file)
    \/ \E w \in Times, device \in Devices : MainRunOnce(Naive(w), device)
    \/ Relaunch

SpecRestart == InitRun /\ [][NextRestart]_vars

(***************************************************************************)
(* parse_response on the texts a device sends.  A text is an object (a     *)
(* sequence of members: a key with a number, a sentinel word or one nested *)
(* object) written in a style.                                             *)
(***************************************************************************)
Member(key, t, text, members) ==
    [key |-> key, t |-> t, text |-> text, members |-> members]
Number(key, text) == Member(key, "num", text, <<>>)
Word(key, text) == Member(key, "word", text, <<>>)
Object(key, members) == Member(key, "obj", <<>>, members)

TempSetText == <<"T", "e", "m", "p", "S", "e", "t">>
HumSetText == <<"H", "u", "m", "S", "e", "t">>
RangeText == <<"T", "e", "m", "p", "S", "e", "t", "_", "R", "a", "n", "g", "e">>
MinText == <<"m", "i", "n">>
MaxText == <<"m", "a", "x">>

Objects ==
    { <<>>,
      <<Number(TempSetText, <<"2", "5", ".", "0">>),
        Word(HumSetText, <<"N", "/", "A">>)>>,
      <<Word(TempSetText, <<"u", "n", "k", "n", "o", "w", "n">>)>>,
      <<Object(RangeText, <<Number(MinText, <<"1", "8", ".", "0">>),
                            Number(MaxText, <<"6", "0">>)>>),
        Number(TempSetText, <<"2", "5">>)>>,
      <<Number(TempSetText, <<"2", "5">>),
        Object(RangeText, <<Number(MinText, <<"1", "8", ".", "0">>),
                            Number(MaxText, <<"6", "0">>)>>)>>,
      <<Object(RangeText, <<Word(MinText, <<"N", "/", "D">>),
                            Number(MaxText, <<"6", "0">>)>>)>> }

QuoteStyles == {"ascii", "bare", "low9", "german", "curly"}
Styles ==
    {Style(braces, comma, inner, quotes, bare_words) :
        braces \in BOOLEAN, comma \in BOOLEAN, inner \in BOOLEAN,
        quotes \in QuoteStyles, bare_words \in BOOLEAN}

\* the opening and the closing glyph of a quote style
OpenQuote(quotes) ==
    IF quotes \in {"low9", "german"} THEN Low9Quote
    ELSE IF quotes = "curly" THEN LeftQuote ELSE Quote
CloseQuote(quotes) ==
    IF quotes = "german" THEN LeftQuote
    ELSE IF quotes = "curly" THEN RightQuote ELSE Quote
Quoted(text, quotes) == <<OpenQuote(quotes)>> \o text \o <<CloseQuote(quotes)>>

\* the members from position i on, and one member, as the device writes them
RECURSIVE WriteMembers(_, _, _), WriteMember(_, _)
WriteMembers(members, i, style) ==
    IF i > Len(members) THEN <<>>
    ELSE WriteMember(members[i], style)
         \o (IF i < Len(members) THEN <<",", " ">> ELSE <<>>)
         \o WriteMembers(members, i + 1, style)

WriteMember(member, style) ==
    (IF style.quotes = "bare" THEN member.key
     ELSE Quoted(member.key, style.quotes))
    \o <<":", " ">>
    \o (IF member.t = "num" THEN member.text
        ELSE IF member.t = "word"
        THEN IF style.bare_words THEN member.text
             ELSE Quoted(member.text, style.quotes)
        ELSE <<"{">> \o WriteMembers(member.members, 1, style)
             \o (IF style.inner THEN <<",">> ELSE <<>>) \o <<"}">>)

\* the response text of an object in a style
Write(members, style) ==
    (IF style.braces THEN <<"{">> ELSE <<>>)
    \o WriteMembers(members, 1, style)
    \o (IF style.comma THEN <<",">> ELSE <<>>)
    \o (IF style.braces THEN <<"}">> ELSE <<>>)

\* a response about to be parsed
Received(members, style) ==
    [pc |-> "pending", sent |-> members, style |-> style,
     raw |-> Str(Write(members, style)), out |-> DecodeError]

\* responses without content: None, the empty text, whitespace alone
BlankResponses ==
    {None, Str(<<>>), Str(<<" ">>), Str(<<"\n">>), Str(<<" ", "\n", " ">>)}

\* a response without content about to be parsed
ReceivedBlank(raw) ==
    [pc |-> "pending", sent |-> <<>>, style |-> Strict, raw |-> raw,
     out |-> DecodeError]

InitParse ==
    /\ schedule = NoSchedule
    /\ executed_points = {}
    /\ tolerance = 0
    /\ check_interval = 30
    /\ call = NoCall
    /\ applyCount = EmptyDict
    /\ setCount = EmptyDict
    /\ client = NoClientCall
    /\ run = NotRunning
    /\ status = NoStatus
    /\ main = NotStarted
    /\ daemon = NoDaemon
    /\ response \in {Received(members, style) :
                        members \in Objects, style \in Styles}
                     \cup {ReceivedBlank(raw) : raw \in BlankResponses}

\* one call of AtmoWebParser.parse_response
ParseResponse ==
    /\ response.pc = "pending"
    /\ response' = [response EXCEPT !.pc = "done",
                                    !.out = parse_response(response.raw)]
    /\ UNCHANGED <<schedule, executed_points, tolerance, check_interval, call,
                   applyCount, setCount, client, run, status, main, daemon>>

NextParse == ParseResponse

SpecParse == InitParse /\ [][NextParse]_vars

(***************************************************************************)
(* The sync programs.  schedule_watcher.py is run again and again (by      *)
(* cron); the two daemons loop, logging every log_interval seconds and     *)
(* syncing every sync_interval seconds.  The scheduler subprocess of the   *)
(* watcher and of memmert_daemon.py is taken by how it ends.               *)
(***************************************************************************)
MaxMtime == 3
MaxClock == 7
MaxChecks == 3

\* the intervals of the daemon loop, in ticks (log_interval > sync_interval
\* as with the defaults 60 and 10)
log_interval == 3
sync_interval == 2

\* str(current_mtime): the decimal digits of the time
RECURSIVE mtime_text(_)
mtime_text(n) ==
    IF n < 10 THEN <<CHOOSE c \in Digits : DigitVal(c) = n>>
    ELSE mtime_text(n \div 10) \o <<CHOOSE c \in Digits : DigitVal(c) = n % 10>>

\* get_file_modified_time: None when the file does not exist
get_file_modified_time(file) == IF file.exists THEN Num(file.mtime) ELSE None

\* load_last_modified (and lines 379-385, 627-633 of the daemons): None when
\* the tracker does not exist or float() rejects its text
load_last_modified(tracker) ==
    IF tracker.t = "none" THEN None
    ELSE LET f == to_float(Str(strip(tracker.s)))
         IN  IF f.exc = "" THEN Num(f.n) ELSE None

\* mutant: a file as old as the tracked time counts as changed
is_changed_or_same(last_mtime, current_mtime) ==
    last_mtime.t = "none" \/ current_mtime >= last_mtime.n

\* last_mtime is None or current_mtime > last_mtime
is_changed(last_mtime, current_mtime) ==
    last_mtime.t = "none" \/ current_mtime > last_mtime.n

\* save_last_modified (and lines 411-413, 643-645): the tracker afterwards,
\* and OSError when the file cannot be written
save_last_modified(d, timestamp) ==
    IF d.writable THEN [exc |-> "", tracker |-> Str(mtime_text(timestamp))]
    ELSE [exc |-> "OSError", tracker |-> d.tracker]

\* how subprocess.run of the scheduler ends: exit code 0, another exit code,
\* the timeout of 30 s, or a failure to start
SchedulerRuns == {"returned_0", "returned_1", "TimeoutExpired", "OSError"}

Cycle(launched, outcome, success, current_mtime, before, exc) ==
    [NoCycle EXCEPT !.checked = TRUE, !.launched = launched,
                    !.outcome = outcome, !.success = success,
                    !.current_mtime = current_mtime, !.before = before,
                    !.exc = exc]

\* mutant: the time is stored only after the scheduler returned 0
run_and_save_if_succeeded(d, current_mtime, outcome) ==
    LET saved == IF outcome = "returned_0" THEN save_last_modified(d, current_mtime)
                 ELSE [exc |-> "", tracker |-> d.tracker]
    IN  [d EXCEPT !.tracker = saved.tracker,
                  !.cycle = [Cycle(TRUE, outcome, outcome = "returned_0",
                                   current_mtime, d.tracker, saved.exc)
                             EXCEPT !.again = current_mtime \in d.handled],
                  !.handled = @ \cup {current_mtime}]

\* run the scheduler, whose failures are caught and printed, then store the
\* time (lines 87-88 of schedule_watcher.py, 389-413 of memmert_daemon.py)
run_and_save(d, current_mtime, outcome) ==
    LET saved == save_last_modified(d, current_mtime)
    IN  [d EXCEPT !.tracker = saved.tracker,
                  !.cycle = [Cycle(TRUE, outcome, outcome = "returned_0",
                                   current_mtime, d.tracker, saved.exc)
                             EXCEPT !.again = current_mtime \in d.handled],
                  !.handled = @ \cup {current_mtime}]

\* main() of schedule_watcher.py
watcher_main(d, outcome) ==
    LET current_mtime == get_file_modified_time(d.file)
        last_mtime == load_last_modified(d.tracker)
    IN  IF current_mtime.t = "none" THEN [d EXCEPT !.cycle = NoCycle]
        ELSE IF is_changed(last_mtime, current_mtime.n)
        THEN run_and_save(d, current_mtime.n, outcome)
        ELSE [d EXCEPT !.cycle = Cycle(FALSE, "", FALSE, current_mtime.n,
                                       d.tracker, "")]

\* MemmertDaemon.check_schedule_update of memmert_daemon.py
check_schedule_update(d, outcome) ==
    LET current_mtime == d.file.mtime
        last_mtime == load_last_modified(d.tracker)
    IN  IF ~d.file.exists THEN [d EXCEPT !.cycle = NoCycle]
        ELSE IF is_changed(last_mtime, current_mtime)
        THEN run_and_save(d, current_mtime, outcome)
        ELSE [d EXCEPT !.cycle = Cycle(FALSE, "", FALSE, current_mtime,
                                       d.tracker, "")]

\* the setters load_and_apply_schedule calls, in the order of its if blocks
AutoKeys == <<"TempSet", "HumSet", "CO2Set", "O2Set", "FanSet">>

\* lines 546-593: each named setpoint is sent; an exception of its setter
\* is caught and listed
RECURSIVE apply_named(_, _, _, _)
apply_named(setpoints, pos, device, acc) ==
    IF pos > Len(AutoKeys) THEN acc
    ELSE LET key == AutoKeys[pos]
             at == {i \in 1..Len(setpoints) : setpoints[i].key = key}
         IN  IF at = {} THEN apply_named(setpoints, pos + 1, device, acc)
             ELSE LET last == CHOOSE i \in at : \A j \in at : j <= i
                      out == device_set_parameter(device, key,
                                                  setpoints[last].value)
                  IN  apply_named(setpoints, pos + 1, device,
                        IF out.exc = ""
                        THEN [acc EXCEPT !.applied = Append(@, key)]
                        ELSE [acc EXCEPT !.errors = Append(@, key)])

NotApplied == [ret |-> FALSE, applied |-> <<>>, errors |-> <<>>]

\* MemmertDaemon.load_and_apply_schedule: the setpoints of the last entry
load_and_apply_schedule(content, device) ==
    IF content.kind # "ok" \/ content.doc = <<>> THEN NotApplied
    ELSE LET setpoints == content.doc[Len(content.doc)].setpoints
             done == apply_named(setpoints, 1, device, NotApplied)
         IN  IF setpoints = <<>> THEN NotApplied
             ELSE [done EXCEPT !.ret = (done.errors = <<>>)]

\* mutant: the time is stored whatever load_and_apply_schedule returned
apply_and_save_always(d, current_mtime, device) ==
    LET result == load_and_apply_schedule(d.file.content, device)
        saved == save_last_modified(d, current_mtime)
    IN  [d EXCEPT !.tracker = saved.tracker,
                  !.cycle = [Cycle(TRUE, "", result.ret, current_mtime,
                                   d.tracker, saved.exc)
                             EXCEPT !.applied = result.applied,
                                    !.errors = result.errors,
                                    !.again = current_mtime \in d.handled],
                  !.handled = IF result.ret THEN @ \cup {current_mtime} ELSE @]

\* lines 636-647: apply the schedule, and store the time if that succeeded
apply_and_save(d, current_mtime, device) ==
    LET result == load_and_apply_schedule(d.file.content, device)
        saved == IF result.ret THEN save_last_modified(d, current_mtime)
                 ELSE [exc |-> "", tracker |-> d.tracker]
    IN  [d EXCEPT !.tracker = saved.tracker,
                  !.cycle = [Cycle(TRUE, "", result.ret, current_mtime,
                                   d.tracker, saved.exc)
                             EXCEPT !.applied = result.applied,
                                    !.errors = result.errors,
                                    !.again = current_mtime \in d.handled],
                  !.handled = IF result.ret THEN @ \cup {current_mtime} ELSE @]

\* MemmertDaemon.check_schedule_update of memmert_daemon_autonomous.py
check_schedule_update_autonomous(d, device) ==
    LET current_mtime == d.file.mtime
        last_mtime == load_last_modified(d.tracker)
    IN  IF ~d.file.exists THEN [d EXCEPT !.cycle = NoCycle]
        ELSE IF is_changed(last_mtime, current_mtime)
        THEN apply_and_save(d, current_mtime, device)
        ELSE [d EXCEPT !.cycle = Cycle(FALSE, "", FALSE, current_mtime,
                                       d.tracker, "")]

\* schedule files the autonomous daemon may find
SyncFiles ==
    {SchedFile("not_json", <<>>), SchedFile("no_schedule_key", <<>>),
     SchedFile("ok", <<Entry(Timestamp(1, FALSE), <<>>)>>),
     SchedFile("ok", <<Entry(Timestamp(1, FALSE), SetpointsAt(1))>>),
     SchedFile("ok", <<Entry(Timestamp(1, FALSE), SetpointsAt(1)),
                       Entry(Timestamp(2, TRUE), SetpointsAt(2))>>)}

\* the device during one application: it accepts every write, it accepts
\* all but those of TempSet, or it cannot be reached
SyncDevices ==
    {Compliant, [k \in WireNames |-> "offline"],
     [k \in WireNames |-> IF k = "TempSet" THEN "offline" ELSE "ok"]}

Programs == {"watcher", "daemon", "autonomous"}

\* the watcher and memmert_daemon.py hand the file to the scheduler
Contents(program) ==
    IF program = "autonomous" THEN SyncFiles ELSE {SchedFile("ok", <<>>)}

\* what git pull does: it fails, or succeeds and may bring a new schedule
\* file
Pull(ok, updated, content) ==
    [ok |-> ok, updated |-> updated, content |-> content]

Pulls(program) ==
    {Pull(ok, FALSE, SchedFile("ok", <<>>)) : ok \in BOOLEAN}
    \cup {Pull(TRUE, TRUE, content) : content \in Contents(program)}

\* a file written anew gets a later modification time
modified(file, content) == OnDisk(TRUE, file.mtime + 1, content)

\* MemmertDaemon.git_pull: exceptions are caught inside
git_pull(d, pull) ==
    IF pull.updated THEN [d EXCEPT !.file = modified(d.file, pull.content)]
    ELSE d

\* tracker files found at the start: none, an empty one, one that holds no
\* number, one with a newline after the number, and stored times
Trackers ==
    {None, Str(<<>>), Str(<<"x">>), Str(<<"2", "\n">>)}
    \cup {Str(mtime_text(m)) : m \in {1, MaxMtime}}

StartFiles(program) ==
    {OnDisk(FALSE, 0, SchedFile("missing", <<>>))}
    \cup {OnDisk(TRUE, 1, content) : content \in Contents(program)}

Started(program, file, tracker, writable) ==
    [NoDaemon EXCEPT !.program = program, !.pc = "running",
                     !.clock = log_interval, !.file = file,
                     !.tracker = tracker, !.writable = writable]

\* one run of schedule_watcher.py
WatcherMain(outcome) ==
    /\ daemon.program = "watcher"
    /\ daemon.checks < MaxChecks
    /\ daemon' = [watcher_main(daemon, outcome) EXCEPT !.checks = @ + 1]
    /\ UNCHANGED <<schedule, executed_points, tolerance, check_interval, call,
                   applyCount, setCount, client, run, status, main, response>>

\* sync_check and the end of one pass of the loop of run: an exception of
\* check_schedule_update leaves the loop through `except Exception`
sync_check(d, before, current_time, checked) ==
    IF current_time - before.last_sync_time < sync_interval THEN d
    ELSE IF checked.cycle.exc # "" THEN [checked EXCEPT !.pc = "failed"]
    ELSE [checked EXCEPT !.last_sync_time = current_time,
                         !.checks = @ + 1,
                         !.cycle.after_failure =
                            before.cycle.launched /\ ~before.cycle.success]

\* log_data: its failures are caught; last_log_time advances on success
log_data(d, current_time, logged) ==
    IF current_time - d.last_log_time >= log_interval /\ logged
    THEN [d EXCEPT !.last_log_time = current_time]
    ELSE d

\* time.sleep(1) at the end of a pass that raised nothing
sleep_one(d) == IF d.pc = "failed" THEN d ELSE [d EXCEPT !.clock = @ + 1]

\* one pass of the loop of MemmertDaemon.run in memmert_daemon.py
DaemonPass(logged, pull, outcome) ==
    /\ daemon.program = "daemon"
    /\ daemon.pc = "running"
    /\ daemon.clock < MaxClock
    /\ pull.updated => daemon.file.mtime < MaxMtime
    /\ LET current_time == daemon.clock
           after_log == log_data(daemon, current_time, logged)
       IN  \E checked \in {check_schedule_update(git_pull(after_log, pull),
                                                 outcome)} :
                daemon' = sleep_one(sync_check(after_log, daemon,
                                               current_time, checked))
    /\ UNCHANGED <<schedule, executed_points, tolerance, check_interval, call,
                   applyCount, setCount, client, run, status, main, response>>

\* one pass of the loop of MemmertDaemon.run in memmert_daemon_autonomous.py
AutonomousPass(logged, pull, device) ==
    /\ daemon.program = "autonomous"
    /\ daemon.pc = "running"
    /\ daemon.clock < MaxClock
    /\ pull.updated => daemon.file.mtime < MaxMtime
    /\ LET current_time == daemon.clock
           after_log == log_data(daemon, current_time, logged)
       IN  \E checked \in {check_schedule_update_autonomous(
                                git_pull(after_log, pull), device)} :
                daemon' = sleep_one(sync_check(after_log, daemon,
                                               current_time, checked))
    /\ UNCHANGED <<schedule, executed_points, tolerance, check_interval, call,
                   applyCount, setCount, client, run, status, main, response>>

\* KeyboardInterrupt in the loop of run
DaemonInterrupt ==
    /\ daemon.program \in {"daemon", "autonomous"}
    /\ daemon.pc = "running"
    /\ daemon' = [daemon EXCEPT !.pc = "stopped"]
    /\ UNCHANGED <<schedule, executed_points, tolerance, check_interval, call,
                   applyCount, setCount, client, run, status, main, response>>

\* the schedule file is written by someone else
Touch(content) ==
    /\ daemon.program \in Programs
    /\ daemon.file.mtime < MaxMtime
    /\ daemon' = [daemon EXCEPT !.file = modified(daemon.file, content)]
    /\ UNCHANGED <<schedule, executed_points, tolerance, check_interval, call,
                   applyCount, setCount, client, run, status, main, response>>

IdleExecutor ==
    /\ schedule = NoSchedule
    /\ executed_points = {}
    /\ tolerance = 0
    /\ check_interval = 30
    /\ call = NoCall
    /\ applyCount = EmptyDict
    /\ setCount = EmptyDict
    /\ client = NoClientCall
    /\ run = NotRunning
    /\ status = NoStatus
    /\ main = NotStarted
    /\ response = NoResponse

\* the sync programs with a tracker file that can be written
InitSync ==
    /\ IdleExecutor
    /\ \E program \in Programs :
        \E file \in StartFiles(program), tracker \in Trackers :
            daemon = Started(program, file, tracker, TRUE)

NextSync ==
    \/ \E outcome \in SchedulerRuns : WatcherMain(outcome)
    \/ \E logged \in BOOLEAN, pull \in Pulls("daemon"),
          outcome \in SchedulerRuns : DaemonPass(logged, pull, outcome)
    \/ \E logged \in BOOLEAN, pull \in Pulls("autonomous"),
          device \in SyncDevices : AutonomousPass(logged, pull, device)
    \/ DaemonInterrupt
    \/ \E content \in Contents(daemon.program) : Touch(content)

SpecSync == InitSync /\ [][NextSync]_vars

\* the daemons with a tracker file that may be read-only
InitDaemon ==
    /\ IdleExecutor
    /\ \E program \in {"daemon", "autonomous"} :
        \E file \in StartFiles(program), tracker \in Trackers,
           writable \in BOOLEAN :
            daemon = Started(program, file, tracker, writable)

NextDaemon ==
    \/ \E logged \in BOOLEAN, pull \in Pulls("daemon"),
          outcome \in SchedulerRuns : DaemonPass(logged, pull, outcome)
    \/ \E logged \in BOOLEAN, pull \in Pulls("autonomous"),
          device \in SyncDevices : AutonomousPass(logged, pull, device)
    \/ DaemonInterrupt
    \/ \E content \in Contents(daemon.program) : Touch(content)

SpecDaemon == InitDaemon /\ [][NextDaemon]_vars

(***************************************************************************)
(* Claims about the schedule executor (specification Spec).                *)
(***************************************************************************)
Abs(x) == IF x < 0 THEN -x ELSE x

\* now - timestamp in seconds as the schedule file format defines it: a Z
\* timestamp is UTC (a naive now is read as UTC), a naive timestamp is
\* compared with the wall-clock fields of now
ClaimDelta(now, ts) ==
    IF ts.z /\ now.aware THEN (now.wall - now.off) - ts.wall
    ELSE now.wall - ts.wall

ClaimDue(now, ts) == Abs(ClaimDelta(now, ts)) <= tolerance

Entries == schedule.entries
Positions == 1..Len(Entries)
IdOf(idx) == <<Entries[idx].timestamp, idx>>
AppliedPositions == {call.applied[i].idx : i \in 1..Len(call.applied)}
Checked == call.op = "check"

\* C1: over any sequence of check_and_execute calls, apply_setpoints runs at
\* most once per schedule entry (timestamp string + list index) and each
\* setpoint of an entry causes at most one set_parameter call.
C1_AtMostOnce ==
    /\ \A p \in DOMAIN applyCount : applyCount[p] <= 1
    /\ \A pk \in DOMAIN setCount : setCount[pk] <= 1

\* an entry executed by an earlier call is due again in this call and the
\* call leaves it alone
C1_Witness ==
    /\ Checked
    /\ \E idx \in Positions :
        /\ IdOf(idx) \in call.before
        /\ ClaimDue(call.now, Entries[idx].timestamp)
        /\ applyCount[IdOf(idx)] = 1
        /\ idx \notin AppliedPositions

\* C3: after check_and_execute(now) returns, every entry that was due in the
\* call is in executed_points whatever became of its setpoints, and no entry
\* executed before the call is applied again by it.
C3_DueIsMarked ==
    Checked =>
        /\ \A idx \in Positions :
            ClaimDue(call.now, Entries[idx].timestamp) =>
                IdOf(idx) \in executed_points
        /\ \A i \in 1..Len(call.applied) :
            call.applied[i].point_id \notin call.before

\* an entry all of whose setpoints failed has just been applied and marked
C3_Witness ==
    /\ Checked
    /\ \E i \in 1..Len(call.applied) :
        /\ call.applied[i].results.success = <<>>
        /\ call.applied[i].results.failed # <<>>
        /\ call.applied[i].point_id \in executed_points

\* C4: with a loaded schedule, every entry not yet executed whose timestamp
\* is within tolerance of now is applied during that same call.
C4_DueIsApplied ==
    (Checked /\ schedule.loaded) =>
        \A idx \in Positions :
            (IdOf(idx) \notin call.before
                /\ ClaimDue(call.now, Entries[idx].timestamp))
            => idx \in AppliedPositions

\* two entries with different timestamps are both applied by one call
C4_Witness ==
    /\ Checked
    /\ Len(call.applied) = 2
    /\ Entries[1].timestamp # Entries[2].timestamp

\* C9: a second check_and_execute with the same now right after a call that
\* executed entries returns False, issues no query and leaves executed_points
\* alone; and with two entries further apart than the tolerance, the call at
\* the first one's time applies only the first, the call at the second one's
\* time only the second.
C9_RepeatIsNoOp ==
    /\ (Checked /\ call.repeat) =>
            /\ ~call.ret
            /\ call.applied = <<>>
            /\ executed_points = call.before
    /\ (Checked /\ Len(Entries) = 2 /\ call.before = {}) =>
            \A idx \in Positions :
                LET other == 3 - idx
                    t0 == Entries[idx].timestamp
                    t1 == Entries[other].timestamp
                IN  (Abs(t0.wall - t1.wall) > tolerance
                        /\ call.now = Naive(t0.wall))
                    => AppliedPositions = {idx}

\* the call is the immediate repetition of a call that executed the first of
\* two far-apart entries
C9_Witness ==
    /\ Checked
    /\ call.repeat
    /\ Len(Entries) = 2
    /\ Abs(Entries[1].timestamp.wall - Entries[2].timestamp.wall) > tolerance
    /\ call.before = {IdOf(1)}
    /\ call.now = Naive(Entries[1].timestamp.wall)

\* the (parameter, value) pairs an applied entry's outcome buckets hold
Attempted(rec) ==
    {<<rec.results.success[i].parameter, rec.results.success[i].requested>> :
        i \in 1..Len(rec.results.success)}
    \cup {<<rec.results.failed[i].parameter, rec.results.failed[i].value>> :
        i \in 1..Len(rec.results.failed)}
    \cup {<<rec.results.not_available[i].parameter,
            rec.results.not_available[i].value>> :
        i \in 1..Len(rec.results.not_available)}

OwnSetpoints(idx) ==
    {<<Entries[idx].setpoints[k].key, Entries[idx].setpoints[k].value>> :
        k \in 1..Len(Entries[idx].setpoints)}

\* C10: two entries with the same timestamp string at different list
\* positions are distinct: when both are due each is applied once with its
\* own setpoints, and an entry is marked executed only by its own application.
C10_DuplicatesDistinct ==
    /\ \A p \in executed_points : p \in DOMAIN applyCount /\ applyCount[p] = 1
    /\ (Checked /\ Len(Entries) = 2
            /\ Entries[1].timestamp = Entries[2].timestamp
            /\ call.before = {}
            /\ ClaimDue(call.now, Entries[1].timestamp))
        => /\ Len(call.applied) = 2
           /\ \A idx \in Positions :
                \E i \in 1..2 :
                    /\ call.applied[i].idx = idx
                    /\ Attempted(call.applied[i]) = OwnSetpoints(idx)
                    /\ \A j \in 1..2 : call.applied[j].idx = idx => j = i

\* both entries of a schedule with one timestamp twice have just been applied
C10_Witness ==
    /\ Checked
    /\ Len(Entries) = 2
    /\ Entries[1].timestamp = Entries[2].timestamp
    /\ AppliedPositions = {1, 2}
    /\ OwnSetpoints(1) # OwnSetpoints(2)

(***************************************************************************)
(* Claims about the order and the outcome of applications (Spec).          *)
(***************************************************************************)
\* the set_parameter calls of one operation in the order they were made, each
\* as <<list position of the entry, position of the setpoint>>
RECURSIVE AttemptLog(_)
AttemptLog(applied) ==
    IF applied = <<>> THEN <<>>
    ELSE [k \in 1..Len(Head(applied).calls) |->
            <<Head(applied).idx, Head(applied).calls[k]>>]
         \o AttemptLog(Tail(applied))

Before(a, b) == a[1] < b[1] \/ (a[1] = b[1] /\ a[2] < b[2])

\* C11: the entries due in one check_and_execute call are applied in
\* ascending schedule-list order, and every setpoint of one entry is attempted
\* (in the entry's own order) before any setpoint of the next entry.
C11_AscendingOrder ==
    Checked =>
        LET log == AttemptLog(call.applied)
        IN  /\ \A a \in 1..Len(log) : \A b \in 1..Len(log) :
                    a < b => Before(log[a], log[b])
            /\ \A i \in 1..Len(call.applied) :
                    call.applied[i].calls =
                        [k \in 1..Len(Entries[call.applied[i].idx].setpoints) |-> k]

\* two entries were due in one call, the later-listed one with the earlier
\* timestamp, and five set_parameter calls were made
C11_Witness ==
    /\ Checked
    /\ Len(call.applied) = 2
    /\ Entries[2].timestamp.wall < Entries[1].timestamp.wall
    /\ Len(AttemptLog(call.applied)) = 5

\* the entries get_next_scheduled_time has to choose from: not executed, and
\* strictly after now
Asked == call.op = "next"
Upcoming ==
    {idx \in Positions : /\ IdOf(idx) \notin executed_points
                         /\ ClaimDelta(call.now, Entries[idx].timestamp) < 0}

\* C12: get_next_scheduled_time(now) returns the minimum timestamp strictly
\* greater than now among the entries not in executed_points, and None
\* exactly when there is no such entry.
C12_NextIsMinimum ==
    Asked =>
        /\ call.next.exc = ""
        /\ call.next.found <=> Upcoming # {}
        /\ call.next.found =>
            \E idx \in Upcoming :
                /\ call.next.time.wall = Entries[idx].timestamp.wall
                /\ call.next.time.aware = Entries[idx].timestamp.z
                /\ \A j \in Upcoming :
                    Entries[idx].timestamp.wall <= Entries[j].timestamp.wall

\* the same for schedules whose timestamps are all naive or all Z
C12_UniformSchedule ==
    (\A i \in Positions : \A j \in Positions :
        Entries[i].timestamp.z = Entries[j].timestamp.z) => C12_NextIsMinimum

\* an entry at exactly now was passed over for a later one
C12_PassedOver ==
    /\ Asked
    /\ call.next.found
    /\ \E idx \in Positions :
        /\ IdOf(idx) \notin executed_points
        /\ ClaimDelta(call.now, Entries[idx].timestamp) = 0

(***************************************************************************)
(* Claims about set_parameter (specification SpecClient).                  *)
(***************************************************************************)
Done == client.pc = "done"
Requested == client.value.n
NumericRequest == client.value.t = "num"
Fetched == get_parameter_range(client.key, client.rresp)
RangeAbsent == Fetched.exc = "" /\ ~Fetched.present
Queries == client.out.queries
ReadThenWrite == <<ReadQuery(client.key), WriteQuery(client.key, Requested)>>
WriteAnswered == Done /\ Len(Queries) = 2 /\ client.wresp.t = "ok"
Echo == Get(client.wresp.map, Field(client.key, ""))

\* C2: when the range fetched for the key is present and the requested value
\* lies outside [min, max], set_parameter raises ValueError and the range
\* read is the only query issued: no write is sent.
C2_NoWriteOutOfRange ==
    (Done /\ NumericRequest /\ Fetched.present
        /\ (Requested < Fetched.min \/ Requested > Fetched.max))
    => /\ client.out.exc = "ValueError"
       /\ Queries = <<ReadQuery(client.key)>>

\* a request above the reported maximum has been refused
C2_Witness ==
    /\ Done
    /\ NumericRequest
    /\ Fetched.present
    /\ Fetched.min <= Requested
    /\ Requested > Fetched.max
    /\ client.out.exc = "ValueError"

\* C6 as stated: two queries (range read, then write) when range data is
\* present and the value is in range, and exactly one query when range data
\* is absent.
C6_Original ==
    (Done /\ NumericRequest) =>
        /\ (Fetched.present /\ Fetched.min <= Requested
                /\ Requested <= Fetched.max) => Queries = ReadThenWrite
        /\ RangeAbsent => Len(Queries) = 1

\* C6 as amended: two queries (range read, then write) when range data is
\* present and the value is in range, and the same two queries when range
\* data is absent.
C6_TwoQueries ==
    (Done /\ NumericRequest) =>
        /\ (Fetched.present /\ Fetched.min <= Requested
                /\ Requested <= Fetched.max) => Queries = ReadThenWrite
        /\ RangeAbsent => Queries = ReadThenWrite

\* a call whose range read brought no range data has sent its write
C6_Witness ==
    /\ Done
    /\ NumericRequest
    /\ RangeAbsent
    /\ client.rresp.t = "ok"
    /\ Len(Queries) = 2

\* C7: when the write response holds a number under the key, set_parameter
\* returns that number, also when it differs from the requested value.
C7_ReturnsEcho ==
    (WriteAnswered /\ Echo.t = "num") =>
        /\ client.out.exc = ""
        /\ client.out.ret = Num(Echo.n)

\* the device echoed another number than requested and it was returned
C7_Witness ==
    /\ WriteAnswered
    /\ Echo.t = "num"
    /\ Echo.n # Requested
    /\ client.out.ret = Echo

SentinelTokens == {<<"n", "/", "a">>, <<"n", "/", "d">>,
                   <<"u", "n", "k", "n", "o", "w", "n">>}

Capital(c) ==
    CASE c = "n" -> "N" [] c = "a" -> "A" [] c = "d" -> "D" [] c = "u" -> "U"
      [] c = "k" -> "K" [] c = "o" -> "O" [] c = "w" -> "W" [] OTHER -> c

\* s spells token in some mixture of letter cases
SpellsToken(s, token) ==
    /\ Len(s) = Len(token)
    /\ \A i \in 1..Len(s) : s[i] = token[i] \/ s[i] = Capital(token[i])

IsSentinel(v) == v.t = "str" /\ \E token \in SentinelTokens : SpellsToken(v.s, token)

\* C8: when the write response holds N/A, N/D or UNKNOWN in any letter case
\* under the key, set_parameter raises KeyError and returns no value.
C8_SentinelRejected ==
    (WriteAnswered /\ IsSentinel(Echo)) =>
        /\ client.out.exc = "KeyError"
        /\ client.out.ret = None

\* a sentinel that is not all upper case has been rejected
C8_Witness ==
    /\ WriteAnswered
    /\ IsSentinel(Echo)
    /\ Echo.s \notin error_values
    /\ client.out.exc = "KeyError"

(***************************************************************************)
(* Claims about get_parameter_range (specification SpecClient).            *)
(***************************************************************************)
\* what the parsed range response holds for the key
RangeBody == Done /\ NumericRequest /\ client.rresp.t = "ok"
Block == Get(client.rresp.map, Field(client.key, "_Range"))
Under(names) ==
    IF Block.t = "dict" THEN {Block.d[n] : n \in names \cap DOMAIN Block.d}
    ELSE {}
NestedMins == Under({"min", "Min", "MIN"})
NestedMaxs == Under({"max", "Max", "MAX"})
HasNested == NestedMins # {} /\ NestedMaxs # {}
IsNumber(v) == to_float(v).exc = ""
UsableNested == HasNested /\ \A v \in NestedMins \cup NestedMaxs : IsNumber(v)
FlatMin == Get(client.rresp.map, Field(client.key, "_RangeMin"))
FlatMax == Get(client.rresp.map, Field(client.key, "_RangeMax"))
BothFlat == FlatMin.t # "none" /\ FlatMax.t # "none"
FromNested ==
    /\ Fetched.present
    /\ \E lo \in NestedMins : to_float(lo) = Converted(Fetched.min)
    /\ \E hi \in NestedMaxs : to_float(hi) = Converted(Fetched.max)

\* C17: when the range response holds neither a nested {key}_Range object
\* with a numeric min and max nor both flat keys, get_parameter_range returns
\* None without raising, and set_parameter sends the write for the requested
\* value, whatever it is.
C17_NoRangeNoValidation ==
    (RangeBody /\ ~UsableNested /\ ~BothFlat) =>
        /\ Fetched = NoRange
        /\ Queries = ReadThenWrite

\* the response had a nested object with a min only and one flat key, and the
\* largest value was written
C17_Witness ==
    /\ RangeBody
    /\ NestedMins # {}
    /\ NestedMaxs = {}
    /\ FlatMin.t = "none"
    /\ FlatMax.t = "num"
    /\ Requested = MaxVal
    /\ Queries = ReadThenWrite

\* C18 as stated: with a nested object holding a min and a max and both flat
\* keys, the nested bounds are returned; the flat keys are used only when the
\* nested object is missing or lacks a min or a max.
C18_Original ==
    /\ (RangeBody /\ HasNested /\ BothFlat) => FromNested
    /\ (RangeBody /\ HasNested /\ Fetched.present) => FromNested

\* C18 as amended: with a nested object holding a min and a max and both flat
\* keys, the nested bounds are returned if both convert to float and None if
\* one does not; the flat keys are used only when the nested object is
\* missing or lacks a min or a max.
C18_NestedPreferred ==
    /\ (RangeBody /\ HasNested /\ BothFlat) =>
            IF UsableNested THEN FromNested ELSE Fetched = NoRange
    /\ (RangeBody /\ HasNested /\ Fetched.present) => FromNested
    /\ (RangeBody /\ ~HasNested /\ BothFlat /\ IsNumber(FlatMin)
            /\ IsNumber(FlatMax)) =>
            /\ Fetched.present
            /\ to_float(FlatMin) = Converted(Fetched.min)
            /\ to_float(FlatMax) = Converted(Fetched.max)

\* a nested object spelt MIN / Max was preferred to flat keys that give
\* other bounds
C18_Witness ==
    /\ RangeBody
    /\ Block.t = "dict"
    /\ {"MIN", "Max"} \subseteq DOMAIN Block.d
    /\ BothFlat
    /\ IsNumber(FlatMin)
    /\ IsNumber(FlatMax)
    /\ to_float(FlatMin).n # Fetched.min
    /\ to_float(FlatMax).n # Fetched.max
    /\ FromNested

(***************************************************************************)
(* Claims about run_continuous (specification SpecRun).                    *)
(***************************************************************************)
LoopEnded == run.pc \in {"done", "raised"}

\* C5: in run_continuous with no duration cap and check_interval at most
\* twice the tolerance, when the loop has ended every schedule entry whose
\* timestamp is at or after the first poll instant has been applied.
C5_NoneSkipped ==
    (LoopEnded /\ ~run.capped /\ check_interval <= 2 * tolerance) =>
        \A idx \in Positions :
            Entries[idx].timestamp.wall >= run.first =>
                /\ IdOf(idx) \in executed_points
                /\ applyCount[IdOf(idx)] = 1

\* the duration cap asked for, and whether the present poll instant is at or
\* past start + cap
CapGiven == run.duration_hours.t = "num"
CapReached == CapGiven /\ run.clock >= run.first + run.duration_hours.n

\* the entries not executed whose timestamp is strictly after the poll instant
UpcomingNow ==
    {idx \in Positions : /\ IdOf(idx) \notin executed_points
                         /\ Entries[idx].timestamp.wall > run.clock}

\* C13 (exits): run_continuous leaves its loop normally at the first poll in
\* which no un-executed entry lies after now or in which now >= start +
\* duration cap, and for no other reason: it never sleeps after such a poll,
\* and it is never done after another one.
C13_NormalExit ==
    /\ run.pc = "sleep" => ~CapReached /\ UpcomingNow # {}
    /\ run.pc = "done" =>
        /\ run.why \in {"exhausted", "duration"}
        /\ CapReached \/ UpcomingNow = {}

\* the same for runs with no cap or a cap other than zero
C13_NonZeroCap == run.duration_hours # Num(0) => C13_NormalExit

\* a run with a positive cap has stopped at the cap with an entry still ahead
C13_StoppedAtCap ==
    /\ run.pc = "done"
    /\ run.why = "duration"
    /\ run.clock > run.first
    /\ UpcomingNow # {}

\* C13 (terminates): every pass of the loop starts later than the pass
\* before it, and a pass is followed by another only while an un-executed
\* entry lies ahead; the timestamps being finitely many, the passes are too.
C13_ClockAdvances ==
    [][(run.pc = "sleep" /\ run'.pc = "poll") =>
            /\ run'.clock > run.clock
            /\ UpcomingNow # {}]_vars

\* the (parameter, value) pairs of one outcome bucket
Bucket(b) == {<<b[i].parameter, b[i].value>> : i \in 1..Len(b)}
Succeeded(b) == {<<b[i].parameter, b[i].requested>> : i \in 1..Len(b)}

\* exceptions of the transport and of response parsing
DeviceErrors == {"RequestException", "JSONDecodeError"}

SetpointOf(rec, k) ==
    <<Entries[rec.idx].setpoints[k].key, Entries[rec.idx].setpoints[k].value>>

C15_UnknownKeyFails ==
    Checked =>
        \A i \in 1..Len(call.applied) :
            LET rec == call.applied[i]
            IN  \A k \in 1..Len(Entries[rec.idx].setpoints) :
                    Entries[rec.idx].setpoints[k].key \notin PARAM_KEYS =>
                        /\ SetpointOf(rec, k) \in
                                Bucket(rec.results.failed)
                                \cup Bucket(rec.results.not_available)
                        /\ SetpointOf(rec, k) \notin
                                Succeeded(rec.results.success)

\* a setpoint with an unknown key has been asked of the device like any other
C15_UnknownKeySent ==
    /\ Checked
    /\ \E i \in 1..Len(call.applied) :
        \E q \in 1..Len(call.applied[i].queries) :
            /\ call.applied[i].queries[q].key \notin PARAM_KEYS
            /\ call.applied[i].queries[q].write

(***************************************************************************)
(* Claims about the read operations (specification SpecRead).              *)
(***************************************************************************)
ReadDone == status.op # "none"
KeysRead == IF status.op = "get_setpoints" THEN SetpointKeys ELSE ReadingKeys
Unanswered(k) == status.answers[k].t \in {"neterr", "badjson"}

\* C19: get_setpoints and get_readings never raise; a key whose query met a
\* network or parse failure is None in the result, every other key has what
\* its own answer holds, and one query is issued for every key in order.
C19_ReadsNeverRaise ==
    ReadDone =>
        /\ status.out.exc = ""
        /\ DOMAIN status.out.values = {KeysRead[i] : i \in 1..Len(KeysRead)}
        /\ status.out.queries = [i \in 1..Len(KeysRead) |-> ReadQuery(KeysRead[i])]
        /\ \A i \in 1..Len(KeysRead) :
            LET k == KeysRead[i]
            IN  /\ Unanswered(k) => status.out.values[k] = None
                /\ (status.answers[k].t = "ok"
                        /\ Get(status.answers[k].map, Field(k, "")).t = "num")
                    => status.out.values[k] =
                            Get(status.answers[k].map, Field(k, ""))

\* the first key's query failed on the network, the second could not be
\* parsed, and the last key still got its number
C19_Witness ==
    /\ ReadDone
    /\ status.answers[KeysRead[1]].t = "neterr"
    /\ status.answers[KeysRead[2]].t = "badjson"
    /\ status.out.values[KeysRead[1]] = None
    /\ status.out.values[KeysRead[5]] = Num(MaxVal)

(***************************************************************************)
(* Claims about main() (specification SpecMain).                           *)
(***************************************************************************)
LoadFailed ==
    main.file \in {"missing", "not_json", "no_schedule_key", "schedule_not_list"}

\* C16: when the schedule file is missing, is not JSON, has no 'schedule' key
\* or holds a 'schedule' that is not a list, load_schedule raises and
\* self.schedule stays unset, and main returns a failure code with
\* check_and_execute and set_parameter never called.
C16_LoadFailureStops ==
    LoadFailed =>
        /\ schedule = NoSchedule
        /\ main.pc = "exited"
        /\ main.code = 1
        /\ main.exc \in {"FileNotFoundError", "JSONDecodeError", "ValueError"}
        /\ call.op # "check"
        /\ run.pc = "idle"
        /\ \A pk \in DOMAIN setCount : setCount[pk] = 0
        /\ executed_points = {}

\* main has returned 1 on a schedule file without a 'schedule' key
C16_Witness ==
    /\ main.file = "no_schedule_key"
    /\ main.pc = "exited"
    /\ main.exc = "ValueError"
    /\ status.op = "get_setpoints"

(***************************************************************************)
(* Claims about the outcome buckets (specification Spec).                  *)
(***************************************************************************)
\* the queries one applied entry issued for its setpoint at position k
QueriesFor(rec, k) ==
    {q \in 1..Len(rec.queries) : rec.queries[q].pos = k}

\* set_parameter for setpoint k sent its write and raised KeyError on the echo
SentinelRejection(rec, k) ==
    /\ rec.raised[k] = "KeyError"
    /\ \E q \in QueriesFor(rec, k) : rec.queries[q].write

\* set_parameter for setpoint k raised ValueError after the range read alone
OutOfRange(rec, k) ==
    /\ rec.raised[k] = "ValueError"
    /\ Cardinality(QueriesFor(rec, k)) = 1

NetworkFailure(rec, k) == rec.raised[k] = "RequestException"

\* C20: apply_setpoints puts every setpoint of the entry into exactly one of
\* success, failed and not_available (the sizes add up to the number of
\* setpoints); a sentinel rejection is in not_available and not in failed,
\* an out-of-range value and a network failure are in failed and not in
\* not_available.
C20_ThreeBuckets ==
    Checked =>
        \A i \in 1..Len(call.applied) :
            LET rec == call.applied[i]
                ok == Succeeded(rec.results.success)
                bad == Bucket(rec.results.failed)
                na == Bucket(rec.results.not_available)
            IN  /\ Len(rec.results.success) + Len(rec.results.failed)
                    + Len(rec.results.not_available)
                        = Len(Entries[rec.idx].setpoints)
                /\ ok \cup bad \cup na = OwnSetpoints(rec.idx)
                /\ ok \cap bad = {} /\ ok \cap na = {} /\ bad \cap na = {}
                /\ \A k \in 1..Len(rec.raised) :
                    /\ SentinelRejection(rec, k) =>
                        SetpointOf(rec, k) \in na \ bad
                    /\ (OutOfRange(rec, k) \/ NetworkFailure(rec, k)) =>
                        SetpointOf(rec, k) \in bad \ na

\* one call applied an entry with a success and a sentinel rejection, and
\* an entry with a sentinel rejection and an out-of-range value
C20_Witness ==
    /\ Checked
    /\ Len(call.applied) = 2
    /\ Len(call.applied[1].results.success) = 1
    /\ SentinelRejection(call.applied[1], 2)
    /\ SentinelRejection(call.applied[2], 1)
    /\ OutOfRange(call.applied[2], 2)
    /\ Len(call.applied[2].results.failed) = 2

\* every setpoint of an entry met a network failure
C20_AllOffline ==
    /\ Checked
    /\ \E i \in 1..Len(call.applied) :
        /\ \A k \in 1..Len(call.applied[i].raised) :
                NetworkFailure(call.applied[i], k)
        /\ Len(call.applied[i].results.failed) = 2

(***************************************************************************)
(* Claims about a compliant device (specification SpecQuery, whose every   *)
(* check_and_execute runs against the device Compliant: bounds 0..MaxVal   *)
(* reported for each key, each written value echoed as it was sent).       *)
(***************************************************************************)
KeysOf(idx) ==
    {Entries[idx].setpoints[k].key : k \in 1..Len(Entries[idx].setpoints)}

\* C21: an entry naming all five wire keys, applied to a device that reports
\* bounds holding every requested value and echoes each value written, has
\* all five setpoints in success with actual equal to requested, and nothing
\* in failed or not_available.
C21_RoundTrip ==
    Checked =>
        \A i \in 1..Len(call.applied) :
            LET rec == call.applied[i]
            IN  KeysOf(rec.idx) = PARAM_KEYS =>
                    /\ Len(rec.results.success) = 5
                    /\ \A k \in 1..5 :
                        /\ rec.results.success[k].parameter =
                                Entries[rec.idx].setpoints[k].key
                        /\ rec.results.success[k].requested =
                                Entries[rec.idx].setpoints[k].value
                        /\ rec.results.success[k].actual =
                                rec.results.success[k].requested
                    /\ rec.results.failed = <<>>
                    /\ rec.results.not_available = <<>>

\* the entry with five setpoints, lowest and highest value among them, has
\* been applied with ten queries
C21_Witness ==
    /\ Checked
    /\ Len(call.applied) = 1
    /\ KeysOf(call.applied[1].idx) = PARAM_KEYS
    /\ Len(call.applied[1].queries) = 10
    /\ \E k \in 1..5 : call.applied[1].results.success[k].actual = Num(0)
    /\ \E k \in 1..5 : call.applied[1].results.success[k].actual = Num(MaxVal)


(***************************************************************************)
(* Claims about the response parser (specification SpecParse).             *)
(***************************************************************************)
ParseDone == response.pc = "done"

\* strict JSON parsing of the hand-corrected text: the same object written
\* with outer braces, ASCII quotes around every key and word, no trailing
\* comma
HandCorrected == json_loads(Write(response.sent, Strict))

\* C23: a response whose keys and strings are delimited by the low-9 quote,
\* the left curly quote or the right curly quote parses like the same
\* response delimited by the ASCII double quote
C23_CurlyQuotesParse ==
    ParseDone /\ response.style.quotes \in {"low9", "german", "curly"}
        => response.out = parse_response(
                Str(Write(response.sent,
                          [response.style EXCEPT !.quotes = "ascii"])))

\* C22: a response that is a JSON object except for missing outer braces,
\* trailing commas, curly quotes, unquoted keys or unquoted sentinel words
\* parses to the mapping strict JSON parsing gives for the corrected text
C22_RepairedLikeStrict ==
    ParseDone => response.out.exc = "" /\ response.out = HandCorrected


(***************************************************************************)
(* Claims about the tolerance window (specification Spec).                 *)
(***************************************************************************)
NotYetExecuted(idx) == IdOf(idx) \notin call.before
InWindow(idx) ==
    /\ -tolerance <= ClaimDelta(call.now, Entries[idx].timestamp)
    /\ ClaimDelta(call.now, Entries[idx].timestamp) <= tolerance

\* C24: a check applies and marks an entry not executed before exactly when
\* -tolerance <= now - timestamp <= tolerance: an entry exactly tolerance
\* seconds away is applied, one further away on either side is neither
\* applied nor marked executed
C24_WindowInclusive ==
    Checked =>
        \A idx \in Positions :
            NotYetExecuted(idx) =>
                /\ idx \in AppliedPositions <=> InWindow(idx)
                /\ IdOf(idx) \in executed_points <=> InWindow(idx)

\* with a tolerance above zero, one entry exactly tolerance seconds after now
\* has just been applied and another one second further away has been left
\* alone
C24_Witness ==
    /\ Checked
    /\ tolerance > 0
    /\ \E idx \in Positions :
        /\ ClaimDelta(call.now, Entries[idx].timestamp) = -tolerance
        /\ idx \in AppliedPositions
        /\ IdOf(idx) \in executed_points
    /\ \E idx \in Positions :
        /\ ClaimDelta(call.now, Entries[idx].timestamp) = -tolerance - 1
        /\ idx \notin AppliedPositions
        /\ IdOf(idx) \notin executed_points


(***************************************************************************)
(* Claims about the bounds of the range (specification SpecClient).        *)
(***************************************************************************)
RangeRejected ==
    /\ client.out.exc = "ValueError"
    /\ Queries = <<ReadQuery(client.key)>>
Written == Len(Queries) = 2 /\ Queries = ReadThenWrite

\* C25: range validation is inclusive: when the reported min is not above the
\* reported max, a requested value equal to either of them is accepted and
\* written, and only a value strictly below min or strictly above max is
\* rejected
C25_BoundsInclusive ==
    (Done /\ NumericRequest /\ Fetched.present) =>
        /\ (Requested \in {Fetched.min, Fetched.max}
                /\ Fetched.min <= Fetched.max) => Written
        /\ RangeRejected =>
                (Requested < Fetched.min \/ Requested > Fetched.max)

\* C25 as stated: a requested value equal to the reported min or to the
\* reported max is accepted and written, whatever the two bounds are
C25_Unconditional ==
    (Done /\ NumericRequest /\ Fetched.present
        /\ Requested \in {Fetched.min, Fetched.max}) => Written

\* a request equal to the reported maximum of a range wider than one value
\* has been written
C25_Witness ==
    /\ Done /\ NumericRequest /\ Fetched.present
    /\ Fetched.min < Fetched.max
    /\ Requested = Fetched.max
    /\ Written


(***************************************************************************)
(* Claims about sequences of set_parameter calls (specification SpecCalls).*)
(***************************************************************************)
Admits(found, value) ==
    found.present => found.min <= value /\ value <= found.max
LastEarlier == client.earlier[Len(client.earlier)]

\* C26: in a sequence of set_parameter calls every write of a key comes
\* second in its own call, right after that call's range read of the same
\* key, and the value written is one the range just read admits: the range
\* of an earlier call is not used again
C26_FreshRangeEveryWrite ==
    Done =>
        \A i \in 1..Len(Queries) :
            Queries[i].write =>
                /\ i = 2
                /\ Queries[1] = ReadQuery(client.key)
                /\ Queries[2] = WriteQuery(client.key, Requested)
                /\ Admits(Fetched, Requested)

\* a call has just written a value that the range read by the call before,
\* for the same key, did not admit
C26_Witness ==
    /\ Done
    /\ Queries = ReadThenWrite
    /\ Fetched.present
    /\ client.earlier # <<>>
    /\ LastEarlier.key = client.key
    /\ get_parameter_range(client.key, LastEarlier.rresp).present
    /\ ~Admits(get_parameter_range(client.key, LastEarlier.rresp), Requested)


(***************************************************************************)
(* Claims about the operator's interrupt (specification SpecRun).          *)
(***************************************************************************)
Stopped == run.pc = "stopped"

\* C27: when an interrupt has stopped run_continuous, no device query was cut
\* short by it, and every entry for which apply_setpoints was started is in
\* executed_points: no entry is left partially applied yet unrecorded
C27_InterruptKeepsRecord ==
    Stopped =>
        /\ call.interrupted = <<>>
        /\ \A p \in DOMAIN applyCount :
                applyCount[p] > 0 => p \in executed_points


(***************************************************************************)
(* Claims about timezones (specification SpecQuery).                       *)
(***************************************************************************)
\* C28: a Z timestamp is taken as UTC (a naive now is read as UTC, an aware
\* now is compared by instant) and a naive timestamp is compared with the
\* wall-clock fields of now; check_and_execute decides what is due and
\* get_next_scheduled_time decides what is still to come by this one rule
C28_SameTimezoneRule ==
    /\ \A idx \in Positions : \A now \in Nows :
        LET ts == Entries[idx].timestamp
        IN  /\ time_difference(now, parse_timestamp(ts)) = ClaimDelta(now, ts)
            /\ in_future(now, parse_timestamp(ts)) <=> ClaimDelta(now, ts) < 0
    /\ Checked =>
        AppliedPositions =
            {idx \in Positions : NotYetExecuted(idx) /\ InWindow(idx)}
    /\ Asked => (call.next.found \/ call.next.exc # "" <=> Upcoming # {})

\* asked at an aware now, one hour ahead of UTC, the next time reported is a
\* Z timestamp with the wall-clock reading of now: it is still to come by
\* the instant, not by the wall clock
C28_Witness ==
    /\ Asked
    /\ call.now.aware /\ call.now.off # 0
    /\ call.next.found
    /\ call.next.time.aware
    /\ call.next.time.wall = call.now.wall


(***************************************************************************)
(* Claims about the execution record (specification SpecMain).             *)
(***************************************************************************)
\* C29: executed_points only grows: no step of load_schedule, run_once or
\* run_continuous (with the check_and_execute and get_next_scheduled_time
\* calls they make) removes an identifier from it, and every identifier in
\* it names an entry of the loaded schedule that has been applied
C29_RecordOnlyGrows ==
    /\ [][executed_points \subseteq executed_points']_vars
    /\ [](\A p \in executed_points :
            /\ schedule.loaded
            /\ \E idx \in Positions : p = IdOf(idx)
            /\ applyCount[p] >= 1)

\* run_continuous has marked a second entry in a later pass than the first
C29_Witness ==
    /\ run.pc \in {"poll", "sleep", "done"}
    /\ Cardinality(executed_points) = 2
    /\ Len(call.applied) = 1
    /\ Cardinality(call.before) = 1


(***************************************************************************)
(* Claims about restarts (specification SpecRestart).                      *)
(***************************************************************************)
AppliedBefore(idx) ==
    applyCount[IdOf(idx)] > Applications(call.applied, IdOf(idx))

\* C30: the execution record is not persisted: the check of a newly started
\* process finds executed_points empty and applies every entry within the
\* tolerance window, the entries applied by a process before it included
C30_NotPersisted ==
    Checked =>
        /\ call.before = {}
        /\ \A idx \in Positions : InWindow(idx) => idx \in AppliedPositions

\* an entry applied by the process before has just been applied again
C30_Witness ==
    /\ Checked
    /\ \E idx \in Positions :
        /\ AppliedBefore(idx)
        /\ idx \in AppliedPositions
        /\ applyCount[IdOf(idx)] = 2


(***************************************************************************)
(* Claims about the value recorded with a success (specification Spec).    *)
(***************************************************************************)
\* C34: every setpoint in the success bucket of apply_setpoints carries a
\* number as its actual value: set_parameter does not return None for a
\* write whose response lacks the key or holds a value that is neither a
\* number nor a sentinel
C34_SuccessIsNumeric ==
    \A i \in 1..Len(call.applied) :
        \A k \in 1..Len(call.applied[i].results.success) :
            call.applied[i].results.success[k].actual.t = "num"


(***************************************************************************)
(* Claims about a failed range read (specification SpecClient).            *)
(***************************************************************************)
\* the bounds the range response holds for the key: those of the nested
\* object when it has both, else the two flat fields when both are there
BoundsHeld ==
    LET info == client.rresp.map
        block == Get(info, Field(client.key, "_Range"))
        lo == IF block.t = "dict" THEN get_dict_value(block.d, MinKeys) ELSE None
        hi == IF block.t = "dict" THEN get_dict_value(block.d, MaxKeys) ELSE None
    IN  IF lo.t # "none" /\ hi.t # "none" THEN {lo, hi}
        ELSE IF Field(client.key, "_RangeMin") \in DOMAIN info
                /\ Field(client.key, "_RangeMax") \in DOMAIN info
        THEN {info[Field(client.key, "_RangeMin")],
              info[Field(client.key, "_RangeMax")]}
        ELSE {}

NonNumericBounds ==
    client.rresp.t = "ok" /\ \E b \in BoundsHeld : to_float(b).exc # ""

\* C35: when the range read of set_parameter meets a network error,
\* set_parameter raises that error and sends no write; when the range
\* response is received but is not JSON, or holds a bound that is not
\* numeric, the range counts as absent and the write is sent whatever the
\* requested value
C35_RangeReadFailure ==
    (Done /\ NumericRequest) =>
        /\ client.rresp = NetError =>
            /\ client.out.exc = "RequestException"
            /\ Queries = <<ReadQuery(client.key)>>
        /\ (client.rresp = BadBody \/ NonNumericBounds) =>
            /\ RangeAbsent
            /\ Written

\* the range response held a non-numeric bound and the largest value was
\* written and echoed
C35_Witness ==
    /\ Done
    /\ NumericRequest
    /\ NonNumericBounds
    /\ Requested = MaxVal
    /\ Written
    /\ client.out.exc = ""
    /\ client.out.ret = Num(MaxVal)

\* the range read met a network error and nothing was written
C35_WitnessNetError ==
    /\ Done
    /\ NumericRequest
    /\ client.rresp = NetError
    /\ Len(Queries) = 1


(***************************************************************************)
(* Claims about the next-change bookkeeping (specification SpecRun).       *)
(***************************************************************************)
\* every timestamp of the loaded schedule ends in Z
AllZ ==
    /\ schedule.loaded
    /\ Positions # {}
    /\ \A idx \in Positions : Entries[idx].timestamp.z

\* entries not executed whose Z timestamp, read as UTC, lies after the wall
\* clock of the pass
AheadOfPass ==
    {idx \in Positions : /\ IdOf(idx) \notin executed_points
                         /\ Entries[idx].timestamp.z
                         /\ Entries[idx].timestamp.wall > run.clock}

\* C36: with a schedule of Z timestamps that still has an un-executed entry
\* ahead, a pass of run_continuous completes its next-change bookkeeping
\* (the time until next_time, taken against the naive datetime.now())
\* without raising, and the loop goes on to its sleep
C36_BookkeepingCompletes ==
    (AllZ /\ Checked /\ AheadOfPass # {}) => run.pc # "raised"


(***************************************************************************)
(* Claims about an executor without a schedule (specification SpecQuery).  *)
(***************************************************************************)
\* C37: before any schedule is loaded, check_and_execute returns False,
\* applies nothing (so no device query is issued) and leaves executed_points
\* as it was, and get_next_scheduled_time returns None
C37_NothingWithoutSchedule ==
    ~schedule.loaded =>
        /\ Checked =>
            /\ ~call.ret
            /\ call.applied = <<>>
            /\ executed_points = call.before
        /\ Asked =>
            /\ call.next.exc = ""
            /\ ~call.next.found

\* get_next_scheduled_time was asked, with a clock after the start, before
\* any schedule was loaded
C37_Witness ==
    /\ ~schedule.loaded
    /\ Asked
    /\ call.now = Naive(2)

\* check_and_execute was called before any schedule was loaded
C37_WitnessCheck ==
    /\ ~schedule.loaded
    /\ Checked
    /\ call.now = Naive(2)


(***************************************************************************)
(* Claims about a response without content (specification SpecParse).      *)
(***************************************************************************)
Blank ==
    response.raw.t = "none" \/ strip(response.raw.s) = <<>>

\* C38: parse_response does not fail on a response that is None, empty or
\* whitespace alone: it returns the empty mapping, and a write answered by
\* such a body makes set_parameter return None without raising
C38_BlankIsEmptyMapping ==
    (ParseDone /\ Blank) =>
        /\ response.out = Decoded(Dict(EmptyDict))
        /\ \A key \in PARAM_KEYS, value \in Values :
            LET out == send_value(key, value, Body(response.out.value.d), <<>>)
            IN  out.exc = "" /\ out.ret = None

\* a response of whitespace alone has been parsed
C38_Witness ==
    /\ ParseDone
    /\ response.raw = Str(<<" ", "\n", " ">>)
    /\ response.out.exc = ""


(***************************************************************************)
(* Claims about the sync programs (specification SpecSync, in which the    *)
(* tracker file can be written).                                           *)
(***************************************************************************)
Autonomous == daemon.program = "autonomous"
LastCheck == daemon.cycle

\* the text a tracker holds after the time was stored in it
StoredText(mtime) == Str(mtime_text(mtime))

\* a tracker file that exists and holds a number, and that number
Readable(tracker) ==
    /\ tracker.t = "str"
    /\ strip(tracker.s) # <<>>
    /\ \A i \in 1..Len(strip(tracker.s)) : strip(tracker.s)[i] \in Digits
TrackedTime(tracker) == DecimalValue(strip(tracker.s))

C31_WitnessUnchanged ==
    /\ Autonomous
    /\ daemon.checks = 2
    /\ LastCheck.checked
    /\ ~LastCheck.launched
    /\ LastCheck.current_mtime \in daemon.handled
    /\ LastCheck.before = StoredText(LastCheck.current_mtime)

Watching == daemon.program \in {"watcher", "daemon"}

\* C32: the watcher (and the check of memmert_daemon.py) runs the scheduler
\* exactly when the tracker is absent or unreadable or the schedule file's
\* modification time is strictly greater than the tracked one, and then
\* stores the current modification time; over an unchanged schedule file
\* the scheduler runs at most once
C32_RunsWhenChanged ==
    (Watching /\ LastCheck.checked) =>
        /\ LastCheck.launched <=>
            \/ ~Readable(LastCheck.before)
            \/ LastCheck.current_mtime > TrackedTime(LastCheck.before)
        /\ LastCheck.launched =>
            /\ daemon.tracker = StoredText(LastCheck.current_mtime)
            /\ ~LastCheck.again

\* the second watcher run over the same file, after one that ran the
\* scheduler, ran nothing
C32_Witness ==
    /\ daemon.program = "watcher"
    /\ daemon.checks = 2
    /\ LastCheck.checked
    /\ ~LastCheck.launched
    /\ daemon.handled = {LastCheck.current_mtime}
    /\ TrackedTime(LastCheck.before) = LastCheck.current_mtime

\* C33: in the watcher and in memmert_daemon.py the tracker is advanced to
\* the current modification time once the scheduler subprocess was launched,
\* also when that subprocess failed, timed out or raised, so that a failed
\* scheduler run is not repeated until the schedule file is modified again
C33_AdvancedAfterFailure ==
    (Watching /\ LastCheck.launched /\ LastCheck.outcome # "returned_0") =>
        /\ Readable(daemon.tracker)
        /\ TrackedTime(daemon.tracker) = LastCheck.current_mtime
        /\ ~is_changed(load_last_modified(daemon.tracker),
                       LastCheck.current_mtime)
        /\ LastCheck.current_mtime \in daemon.handled

\* the scheduler timed out in the daemon's check and the time was stored
C33_Witness ==
    /\ daemon.program = "daemon"
    /\ LastCheck.launched
    /\ LastCheck.outcome = "TimeoutExpired"
    /\ LastCheck.before = None
    /\ daemon.tracker = StoredText(LastCheck.current_mtime)

(***************************************************************************)
(* Claims about the daemon loops (specification SpecDaemon, in which the   *)
(* tracker file may be read-only).                                         *)
(***************************************************************************)
\* C39: the loop of MemmertDaemon.run keeps iterating after any failure in a
\* logging cycle or a sync check (device unreachable, git failure, scheduler
\* failure, unreadable or unwritable tracker); only an interrupt by the
\* operator ends it
C39_OnlyInterruptEnds ==
    daemon.pc \in {"running", "stopped"}

====
